---- MODULE Spec2Model ----
(***************************************************************************)
(* State-machine model of the ai_dex concentrated-liquidity pool program:  *)
(* pool state, tick store, positions, the transfer-fee adapter, the swap   *)
(* and two-hop swap handlers, the liquidity handlers and the reward/fee    *)
(* administration handlers.                                                *)
(*                                                                         *)
(* Fixed-point numbers are scaled down: X64 stands for 2^64 (the Q64.64    *)
(* one) and the tick <-> sqrt-price table is a short geometric table.      *)
(***************************************************************************)
EXTENDS Integers, Sequences, FiniteSets, TLC

VARIABLES
    pools,      \* pool account of each pool address
    ticks,      \* tick store of each pool
    positions,  \* position accounts
    mints,      \* transfer-fee configuration of each mint
    now,        \* the ledger clock (unix timestamp)
    ops,        \* number of instructions executed so far
    last        \* outcome of the last instruction

vars == <<pools, ticks, positions, mints, now, ops, last>>

\* ------------------------------------------------------------------------
\* Bounds of the model
\* ------------------------------------------------------------------------
MaxTime == 1
MaxOps == 2
MaxSwaps == 2
MaxHops == 1
MaxExcluded == 40

\* ------------------------------------------------------------------------
\* Program constants
\* ------------------------------------------------------------------------
NUM_REWARDS == 3
MAX_FEE_BASIS_POINTS == 10000
ONE_IN_BASIS_POINTS == 10000
DAY_IN_SECONDS == 86400
X64 == 256
\* the first value a u64 cannot hold, at the scale of X64
U64_LIMIT == 2097152
MIN_TICK == -2
MAX_TICK == 2
FEE_RATE_MUL_VALUE == 1000000
PROTOCOL_FEE_RATE_MUL_VALUE == 10000
MAX_FEE_RATE == 30000
MAX_PROTOCOL_FEE_RATE == 2500
DefaultPubkey == 0

Ticks == MIN_TICK..MAX_TICK
RewardIdx == 0..(NUM_REWARDS - 1)

Min(a, b) == IF a <= b THEN a ELSE b
Max(a, b) == IF a >= b THEN a ELSE b
CeilDiv(n, d) == (n + d - 1) \div d

\* ------------------------------------------------------------------------
\* Fixed-point math kernel
\* ------------------------------------------------------------------------
SqrtPriceTable == <<128, 181, 256, 362, 512>>

sqrt_price_from_tick_index(t) == SqrtPriceTable[t - MIN_TICK + 1]

MIN_SQRT_PRICE_X64 == sqrt_price_from_tick_index(MIN_TICK)
MAX_SQRT_PRICE_X64 == sqrt_price_from_tick_index(MAX_TICK)

\* the largest tick whose sqrt-price is <= p
tick_index_from_sqrt_price(p) ==
    CHOOSE t \in Ticks :
        /\ sqrt_price_from_tick_index(t) <= p
        /\ \A u \in Ticks : sqrt_price_from_tick_index(u) <= p => u <= t

\* token A needed to move the price between p0 and p1 at liquidity liq
get_amount_delta_a(p0, p1, liq, round_up) ==
    LET lo == Min(p0, p1)
        hi == Max(p0, p1)
        num == liq * X64 * (hi - lo)
        den == lo * hi
    IN IF round_up THEN CeilDiv(num, den) ELSE num \div den

\* token B needed to move the price between p0 and p1 at liquidity liq
get_amount_delta_b(p0, p1, liq, round_up) ==
    LET lo == Min(p0, p1)
        hi == Max(p0, p1)
        num == liq * (hi - lo)
    IN IF round_up THEN CeilDiv(num, X64) ELSE num \div X64

\* ------------------------------------------------------------------------
\* Transfer-fee adapter
\* ------------------------------------------------------------------------
\* A mint account: its owner program, whether it is the native mint of
\* Token-2022, whether it has a freeze authority, its extension types, the
\* state of its DefaultAccountState extension, and the fee of its
\* TransferFeeConfig extension (ext: the mint carries that extension).
\* a mint of the Token program
NoTransferFee ==
    [ext |-> FALSE, transfer_fee_basis_points |-> 0, maximum_fee |-> 0,
     owner |-> "Token", is_native |-> FALSE, freeze_authority |-> FALSE,
     extensions |-> {}, default_state |-> "Initialized"]

\* a Token-2022 mint with the given freeze authority and extensions
Token2022Mint(freeze_authority, extensions, default_state) ==
    [ext |-> "TransferFeeConfig" \in extensions,
     transfer_fee_basis_points |-> 0, maximum_fee |-> 0,
     owner |-> "Token2022", is_native |-> FALSE, freeze_authority |-> freeze_authority,
     extensions |-> extensions, default_state |-> default_state]

\* a Token-2022 mint whose only extension is a transfer fee
TransferFee(bps, max) ==
    [Token2022Mint(FALSE, {"TransferFeeConfig"}, "Initialized")
        EXCEPT !.transfer_fee_basis_points = bps, !.maximum_fee = max]

\* the token wrapper account of (config, mint): not created, or initialized
\* by initialize_token_wrapper
NoTokenWrapper ==
    [owner |-> "System", ai_dex_config |-> DefaultPubkey, token_mint |-> DefaultPubkey]

\* TokenWrapper::initialize on the account created by initialize_token_wrapper
TokenWrapper_initialize(ai_dex_config, token_mint) ==
    [owner |-> "AiDex", ai_dex_config |-> ai_dex_config, token_mint |-> token_mint]

\* is_supported_token_mint that lets a token wrapper vouch for a
\* NonTransferable mint
is_supported_token_mint_wrapped_non_transferable(token_mint, is_token_wrapper_initialized) ==
    IF token_mint.owner = "Token" THEN TRUE
    ELSE IF token_mint.is_native THEN FALSE
    ELSE IF token_mint.freeze_authority /\ ~is_token_wrapper_initialized THEN FALSE
    ELSE \A extension \in token_mint.extensions :
            \/ extension \in {"TransferFeeConfig", "TokenMetadata", "MetadataPointer",
                              "ConfidentialTransferMint", "ConfidentialTransferFeeConfig"}
            \/ /\ extension \in {"PermanentDelegate", "TransferHook",
                                 "MintCloseAuthority", "DefaultAccountState",
                                 "NonTransferable"}
               /\ is_token_wrapper_initialized
               /\ extension = "DefaultAccountState" =>
                      token_mint.default_state = "Initialized"

\* is_supported_token_mint that does not ask for a token wrapper
is_supported_token_mint_without_wrapper(token_mint, is_token_wrapper_initialized) ==
    IF token_mint.owner = "Token" THEN TRUE
    ELSE IF token_mint.is_native THEN FALSE
    ELSE \A extension \in token_mint.extensions :
            \/ extension \in {"TransferFeeConfig", "TokenMetadata", "MetadataPointer",
                              "ConfidentialTransferMint", "ConfidentialTransferFeeConfig"}
            \/ /\ extension \in {"PermanentDelegate", "TransferHook",
                                 "MintCloseAuthority", "DefaultAccountState"}
               /\ extension = "DefaultAccountState" =>
                      token_mint.default_state = "Initialized"

\* is_supported_token_mint: the loop over the extension types returns false
\* at the first unsupported one, so the mint is supported when none is
is_supported_token_mint(token_mint, is_token_wrapper_initialized) ==
    IF token_mint.owner = "Token" THEN TRUE
    ELSE IF token_mint.is_native THEN FALSE
    ELSE IF token_mint.freeze_authority /\ ~is_token_wrapper_initialized THEN FALSE
    ELSE \A extension \in token_mint.extensions :
            \/ extension \in {"TransferFeeConfig", "TokenMetadata", "MetadataPointer",
                              "ConfidentialTransferMint", "ConfidentialTransferFeeConfig"}
            \/ /\ extension \in {"PermanentDelegate", "TransferHook",
                                 "MintCloseAuthority", "DefaultAccountState"}
               /\ is_token_wrapper_initialized
               /\ extension = "DefaultAccountState" =>
                      token_mint.default_state = "Initialized"

is_token_wrapper_initialized(ai_dex_config_key, token_mint_key, token_wrapper) ==
    IF token_wrapper.owner # "AiDex" THEN FALSE
    ELSE /\ token_wrapper.ai_dex_config = ai_dex_config_key
         /\ token_wrapper.token_mint = token_mint_key

\* TransferFee::calculate_fee
calculate_fee(tf, pre_fee_amount) ==
    IF tf.transfer_fee_basis_points = 0 \/ pre_fee_amount = 0
    THEN 0
    ELSE Min(CeilDiv(pre_fee_amount * tf.transfer_fee_basis_points, ONE_IN_BASIS_POINTS),
             tf.maximum_fee)

\* TransferFee::calculate_pre_fee_amount
calculate_pre_fee_amount(tf, post_fee_amount) ==
    IF tf.transfer_fee_basis_points = 0 THEN post_fee_amount
    ELSE IF post_fee_amount = 0 THEN 0
    ELSE IF tf.transfer_fee_basis_points = ONE_IN_BASIS_POINTS
         THEN tf.maximum_fee + post_fee_amount
    ELSE LET raw == CeilDiv(post_fee_amount * ONE_IN_BASIS_POINTS,
                            ONE_IN_BASIS_POINTS - tf.transfer_fee_basis_points)
         IN IF raw - post_fee_amount >= tf.maximum_fee
            THEN post_fee_amount + tf.maximum_fee
            ELSE raw

\* TransferFee::calculate_inverse_fee
calculate_inverse_fee(tf, post_fee_amount) ==
    calculate_fee(tf, calculate_pre_fee_amount(tf, post_fee_amount))

\* the fee configuration of the current epoch, or none
get_epoch_transfer_fee(mint_cfg) == mint_cfg

calculate_transfer_fee_excluded_amount(mint_cfg, transfer_fee_included_amount) ==
    LET tf == get_epoch_transfer_fee(mint_cfg)
    IN IF tf.ext
       THEN LET transfer_fee == calculate_fee(tf, transfer_fee_included_amount)
            IN [err |-> "Ok",
                amount |-> transfer_fee_included_amount - transfer_fee,
                transfer_fee |-> transfer_fee]
       ELSE [err |-> "Ok", amount |-> transfer_fee_included_amount, transfer_fee |-> 0]

\* calculate_transfer_fee_included_amount that adds no fee
calculate_transfer_fee_included_amount_without_fee(mint_cfg, transfer_fee_excluded_amount) ==
    [err |-> "Ok", amount |-> transfer_fee_excluded_amount, transfer_fee |-> 0]

\* calculate_transfer_fee_included_amount that adds the fee of the excluded
\* amount and does not verify it
calculate_transfer_fee_included_amount_fee_of_excluded(mint_cfg, transfer_fee_excluded_amount) ==
    LET tf == get_epoch_transfer_fee(mint_cfg)
        with_fee(transfer_fee) ==
            [err |-> "Ok", amount |-> transfer_fee_excluded_amount + transfer_fee,
             transfer_fee |-> transfer_fee]
    IN IF tf.ext
       THEN with_fee(calculate_fee(tf, transfer_fee_excluded_amount))
       ELSE with_fee(0)

\* calculate_transfer_fee_included_amount that takes the forward fee of the
\* excluded amount for the inverse fee
calculate_transfer_fee_included_amount_forward_fee(mint_cfg, transfer_fee_excluded_amount) ==
    LET tf == get_epoch_transfer_fee(mint_cfg)
        verified(transfer_fee) ==
            IF transfer_fee # calculate_fee(tf, transfer_fee_excluded_amount + transfer_fee)
            THEN [err |-> "TransferFeeCalculationError", amount |-> 0, transfer_fee |-> 0]
            ELSE [err |-> "Ok", amount |-> transfer_fee_excluded_amount + transfer_fee,
                  transfer_fee |-> transfer_fee]
    IN IF tf.ext
       THEN verified(calculate_fee(tf, transfer_fee_excluded_amount))
       ELSE [err |-> "Ok", amount |-> transfer_fee_excluded_amount, transfer_fee |-> 0]

\* calculate_transfer_fee_included_amount that computes the fee of an excluded
\* amount of zero like any other
calculate_transfer_fee_included_amount_without_zero_case(mint_cfg, transfer_fee_excluded_amount) ==
    LET tf == get_epoch_transfer_fee(mint_cfg)
    IN IF tf.ext
       THEN LET transfer_fee ==
                    IF tf.transfer_fee_basis_points = MAX_FEE_BASIS_POINTS
                    THEN tf.maximum_fee
                    ELSE calculate_inverse_fee(tf, transfer_fee_excluded_amount)
                transfer_fee_included_amount == transfer_fee_excluded_amount + transfer_fee
                transfer_fee_verification == calculate_fee(tf, transfer_fee_included_amount)
            IN IF transfer_fee_included_amount >= U64_LIMIT
               THEN [err |-> "TransferFeeCalculationError", amount |-> 0, transfer_fee |-> 0]
               ELSE IF transfer_fee # transfer_fee_verification
               THEN [err |-> "TransferFeeCalculationError", amount |-> 0, transfer_fee |-> 0]
               ELSE [err |-> "Ok", amount |-> transfer_fee_included_amount,
                     transfer_fee |-> transfer_fee]
       ELSE [err |-> "Ok", amount |-> transfer_fee_excluded_amount, transfer_fee |-> 0]

\* calculate_transfer_fee_included_amount
calculate_transfer_fee_included_amount(mint_cfg, transfer_fee_excluded_amount) ==
    LET tf == get_epoch_transfer_fee(mint_cfg)
    IN IF transfer_fee_excluded_amount = 0
       THEN [err |-> "Ok", amount |-> 0, transfer_fee |-> 0]
       ELSE IF tf.ext
       THEN LET transfer_fee ==
                    IF tf.transfer_fee_basis_points = MAX_FEE_BASIS_POINTS
                    THEN tf.maximum_fee
                    ELSE calculate_inverse_fee(tf, transfer_fee_excluded_amount)
                transfer_fee_included_amount == transfer_fee_excluded_amount + transfer_fee
                transfer_fee_verification == calculate_fee(tf, transfer_fee_included_amount)
            IN IF transfer_fee_included_amount >= U64_LIMIT
               THEN [err |-> "TransferFeeCalculationError", amount |-> 0, transfer_fee |-> 0]
               ELSE IF transfer_fee # transfer_fee_verification
               THEN [err |-> "TransferFeeCalculationError", amount |-> 0, transfer_fee |-> 0]
               ELSE [err |-> "Ok", amount |-> transfer_fee_included_amount,
                     transfer_fee |-> transfer_fee]
       ELSE [err |-> "Ok", amount |-> transfer_fee_excluded_amount, transfer_fee |-> 0]

\* ------------------------------------------------------------------------
\* Pool state
\* ------------------------------------------------------------------------
\* AiDexRewardInfo::default / AiDexRewardInfo::new
AiDexRewardInfo_new(authority) ==
    [mint |-> DefaultPubkey, vault |-> DefaultPubkey, authority |-> authority,
     emissions_per_second_x64 |-> 0, growth_global_x64 |-> 0]

\* AiDexRewardInfo::initialized
initialized(r) == r.mint # DefaultPubkey

\* AiDexPool::default(): the zeroed account before initialize
DefaultPool ==
    [ai_dex_config |-> DefaultPubkey, tick_spacing |-> 0, fee_rate |-> 0,
     protocol_fee_rate |-> 0, liquidity |-> 0, sqrt_price |-> 0,
     tick_current_index |-> 0, protocol_fee_owed_a |-> 0, protocol_fee_owed_b |-> 0,
     token_mint_a |-> DefaultPubkey, token_mint_b |-> DefaultPubkey,
     token_vault_a |-> DefaultPubkey, token_vault_b |-> DefaultPubkey,
     fee_growth_global_a |-> 0, fee_growth_global_b |-> 0,
     reward_last_updated_timestamp |-> 0,
     reward_infos |-> [i \in RewardIdx |-> AiDexRewardInfo_new(DefaultPubkey)]]

input_token_mint(pool, a_to_b) == IF a_to_b THEN pool.token_mint_a ELSE pool.token_mint_b

output_token_mint(pool, a_to_b) == IF a_to_b THEN pool.token_mint_b ELSE pool.token_mint_a

\* update_fee_rate that accepts every u16
update_fee_rate_uncapped(pool, fee_rate) ==
    [err |-> "Ok", pool |-> [pool EXCEPT !.fee_rate = fee_rate]]

\* AiDexPool::update_fee_rate
update_fee_rate(pool, fee_rate) ==
    IF fee_rate > MAX_FEE_RATE
    THEN [err |-> "FeeRateExceededError", pool |-> pool]
    ELSE [err |-> "Ok", pool |-> [pool EXCEPT !.fee_rate = fee_rate]]

\* AiDexPool::update_protocol_fee_rate
update_protocol_fee_rate(pool, protocol_fee_rate) ==
    IF protocol_fee_rate > MAX_PROTOCOL_FEE_RATE
    THEN [err |-> "ProtocolFeeRateExceededError", pool |-> pool]
    ELSE [err |-> "Ok", pool |-> [pool EXCEPT !.protocol_fee_rate = protocol_fee_rate]]

\* AiDexPool::initialize that admits the same mint on both sides
initialize_admitting_equal_mints(pool, cfg, tick_spacing, sqrt_price, default_fee_rate, token_mint_a, token_vault_a, token_mint_b, token_vault_b) ==
    IF token_mint_a > token_mint_b
    THEN [err |-> "InvalidTokenMintOrderError", pool |-> pool]
    ELSE IF sqrt_price < MIN_SQRT_PRICE_X64 \/ sqrt_price > MAX_SQRT_PRICE_X64
    THEN [err |-> "SqrtPriceOutOfBoundsError", pool |-> pool]
    ELSE
      LET p1 == [pool EXCEPT !.ai_dex_config = cfg.key, !.tick_spacing = tick_spacing]
          r1 == update_fee_rate(p1, default_fee_rate)
          r2 == update_protocol_fee_rate(r1.pool, cfg.default_protocol_fee_rate)
      IN IF r1.err # "Ok" THEN r1
         ELSE IF r2.err # "Ok" THEN r2
         ELSE [err |-> "Ok",
               pool |-> [r2.pool EXCEPT
                   !.liquidity = 0,
                   !.sqrt_price = sqrt_price,
                   !.tick_current_index = tick_index_from_sqrt_price(sqrt_price),
                   !.protocol_fee_owed_a = 0,
                   !.protocol_fee_owed_b = 0,
                   !.token_mint_a = token_mint_a,
                   !.token_vault_a = token_vault_a,
                   !.fee_growth_global_a = 0,
                   !.token_mint_b = token_mint_b,
                   !.token_vault_b = token_vault_b,
                   !.fee_growth_global_b = 0,
                   !.reward_infos =
                       [i \in RewardIdx |-> AiDexRewardInfo_new(cfg.config_authority)]]]

\* AiDexPool::initialize that writes nothing before its last check has passed
initialize_writing_after_the_checks(pool, cfg, tick_spacing, sqrt_price, default_fee_rate, token_mint_a, token_vault_a, token_mint_b, token_vault_b) ==
    IF token_mint_a >= token_mint_b
    THEN [err |-> "InvalidTokenMintOrderError", pool |-> pool]
    ELSE IF sqrt_price < MIN_SQRT_PRICE_X64 \/ sqrt_price > MAX_SQRT_PRICE_X64
    THEN [err |-> "SqrtPriceOutOfBoundsError", pool |-> pool]
    ELSE
      LET p1 == [pool EXCEPT !.ai_dex_config = cfg.key, !.tick_spacing = tick_spacing]
          r1 == update_fee_rate(p1, default_fee_rate)
          r2 == update_protocol_fee_rate(r1.pool, cfg.default_protocol_fee_rate)
      IN IF r1.err # "Ok" THEN [r1 EXCEPT !.pool = pool]
         ELSE IF r2.err # "Ok" THEN [r2 EXCEPT !.pool = pool]
         ELSE [err |-> "Ok",
               pool |-> [r2.pool EXCEPT
                   !.liquidity = 0,
                   !.sqrt_price = sqrt_price,
                   !.tick_current_index = tick_index_from_sqrt_price(sqrt_price),
                   !.protocol_fee_owed_a = 0,
                   !.protocol_fee_owed_b = 0,
                   !.token_mint_a = token_mint_a,
                   !.token_vault_a = token_vault_a,
                   !.fee_growth_global_a = 0,
                   !.token_mint_b = token_mint_b,
                   !.token_vault_b = token_vault_b,
                   !.fee_growth_global_b = 0,
                   !.reward_infos =
                       [i \in RewardIdx |-> AiDexRewardInfo_new(cfg.config_authority)]]]

\* AiDexPool::initialize; cfg is the config account
\* [key, default_protocol_fee_rate, config_authority]
initialize(pool, cfg, tick_spacing, sqrt_price, default_fee_rate, token_mint_a, token_vault_a, token_mint_b, token_vault_b) ==
    IF token_mint_a >= token_mint_b
    THEN [err |-> "InvalidTokenMintOrderError", pool |-> pool]
    ELSE IF sqrt_price < MIN_SQRT_PRICE_X64 \/ sqrt_price > MAX_SQRT_PRICE_X64
    THEN [err |-> "SqrtPriceOutOfBoundsError", pool |-> pool]
    ELSE
      LET p1 == [pool EXCEPT !.ai_dex_config = cfg.key, !.tick_spacing = tick_spacing]
          r1 == update_fee_rate(p1, default_fee_rate)
          r2 == update_protocol_fee_rate(r1.pool, cfg.default_protocol_fee_rate)
      IN IF r1.err # "Ok" THEN r1
         ELSE IF r2.err # "Ok" THEN r2
         ELSE [err |-> "Ok",
               pool |-> [r2.pool EXCEPT
                   !.liquidity = 0,
                   !.sqrt_price = sqrt_price,
                   !.tick_current_index = tick_index_from_sqrt_price(sqrt_price),
                   !.protocol_fee_owed_a = 0,
                   !.protocol_fee_owed_b = 0,
                   !.token_mint_a = token_mint_a,
                   !.token_vault_a = token_vault_a,
                   !.fee_growth_global_a = 0,
                   !.token_mint_b = token_mint_b,
                   !.token_vault_b = token_vault_b,
                   !.fee_growth_global_b = 0,
                   !.reward_infos =
                       [i \in RewardIdx |-> AiDexRewardInfo_new(cfg.config_authority)]]]

\* update_rewards that stores the reward infos but not the timestamp
update_rewards_keeping_timestamp(pool, reward_infos, reward_last_updated_timestamp) ==
    [pool EXCEPT !.reward_infos = reward_infos]

\* AiDexPool::update_rewards
update_rewards(pool, reward_infos, reward_last_updated_timestamp) ==
    [pool EXCEPT !.reward_last_updated_timestamp = reward_last_updated_timestamp,
                 !.reward_infos = reward_infos]

\* update_rewards_and_liquidity that leaves the pool's liquidity as it was
update_rewards_and_liquidity_stale_liquidity(pool, reward_infos, liquidity, reward_last_updated_timestamp) ==
    update_rewards(pool, reward_infos, reward_last_updated_timestamp)

\* AiDexPool::update_rewards_and_liquidity
update_rewards_and_liquidity(pool, reward_infos, liquidity, reward_last_updated_timestamp) ==
    [update_rewards(pool, reward_infos, reward_last_updated_timestamp)
        EXCEPT !.liquidity = liquidity]

\* AiDexPool::update_reward_authority
update_reward_authority(pool, index, authority) ==
    IF index >= NUM_REWARDS
    THEN [err |-> "InvalidRewardIndexError", pool |-> pool]
    ELSE [err |-> "Ok", pool |-> [pool EXCEPT !.reward_infos[index].authority = authority]]

\* update_emissions that restarts the slot's growth with the new emissions
update_emissions_restarting_growth(pool, index, reward_infos, timestamp, emissions_per_second_x64) ==
    IF index >= NUM_REWARDS
    THEN [err |-> "InvalidRewardIndexError", pool |-> pool]
    ELSE [err |-> "Ok",
          pool |-> [update_rewards(pool, reward_infos, timestamp) EXCEPT
                      !.reward_infos[index].emissions_per_second_x64 =
                          emissions_per_second_x64,
                      !.reward_infos[index].growth_global_x64 = 0]]

\* AiDexPool::update_emissions
update_emissions(pool, index, reward_infos, timestamp, emissions_per_second_x64) ==
    IF index >= NUM_REWARDS
    THEN [err |-> "InvalidRewardIndexError", pool |-> pool]
    ELSE [err |-> "Ok",
          pool |-> [update_rewards(pool, reward_infos, timestamp) EXCEPT
                      !.reward_infos[index].emissions_per_second_x64 =
                          emissions_per_second_x64]]

\* initialize_reward without the lowest-uninitialized-index check
initialize_reward_at_any_index(pool, index, mint, vault) ==
    IF index >= NUM_REWARDS
    THEN [err |-> "InvalidRewardIndexError", pool |-> pool]
    ELSE [err |-> "Ok",
          pool |-> [pool EXCEPT !.reward_infos[index].mint = mint,
                                !.reward_infos[index].vault = vault]]

\* AiDexPool::initialize_reward that lets the caller skip ahead of the lowest
\* uninitialized slot
initialize_reward_skipping_ahead(pool, index, mint, vault) ==
    IF index >= NUM_REWARDS
    THEN [err |-> "InvalidRewardIndexError", pool |-> pool]
    ELSE IF \A i \in RewardIdx : initialized(pool.reward_infos[i])
    THEN [err |-> "InvalidRewardIndexError", pool |-> pool]
    ELSE LET lowest_index ==
                 CHOOSE i \in RewardIdx :
                     /\ ~initialized(pool.reward_infos[i])
                     /\ \A j \in RewardIdx : j < i => initialized(pool.reward_infos[j])
         IN IF lowest_index > index
            THEN [err |-> "InvalidRewardIndexError", pool |-> pool]
            ELSE [err |-> "Ok",
                  pool |-> [pool EXCEPT !.reward_infos[index].mint = mint,
                                        !.reward_infos[index].vault = vault]]

\* AiDexPool::initialize_reward
initialize_reward(pool, index, mint, vault) ==
    IF index >= NUM_REWARDS
    THEN [err |-> "InvalidRewardIndexError", pool |-> pool]
    ELSE IF \A i \in RewardIdx : initialized(pool.reward_infos[i])
    THEN [err |-> "InvalidRewardIndexError", pool |-> pool]
    ELSE LET lowest_index ==
                 CHOOSE i \in RewardIdx :
                     /\ ~initialized(pool.reward_infos[i])
                     /\ \A j \in RewardIdx : j < i => initialized(pool.reward_infos[j])
         IN IF lowest_index # index
            THEN [err |-> "InvalidRewardIndexError", pool |-> pool]
            ELSE [err |-> "Ok",
                  pool |-> [pool EXCEPT !.reward_infos[index].mint = mint,
                                        !.reward_infos[index].vault = vault]]

\* update_after_swap that credits the protocol fee to both tokens
update_after_swap_fee_on_both_tokens(pool, liquidity, tick_index, sqrt_price, fee_growth_global, reward_infos, protocol_fee, is_token_fee_in_a, reward_last_updated_timestamp) ==
    LET p1 == [pool EXCEPT !.tick_current_index = tick_index,
                           !.sqrt_price = sqrt_price,
                           !.liquidity = liquidity,
                           !.reward_infos = reward_infos,
                           !.reward_last_updated_timestamp = reward_last_updated_timestamp,
                           !.protocol_fee_owed_a = (pool.protocol_fee_owed_a + protocol_fee) % U64_LIMIT,
                           !.protocol_fee_owed_b = (pool.protocol_fee_owed_b + protocol_fee) % U64_LIMIT]
    IN IF is_token_fee_in_a
       THEN [p1 EXCEPT !.fee_growth_global_a = fee_growth_global]
       ELSE [p1 EXCEPT !.fee_growth_global_b = fee_growth_global]

\* update_after_swap that stores the new price but not the new tick index
update_after_swap_stale_tick(pool, liquidity, tick_index, sqrt_price, fee_growth_global, reward_infos, protocol_fee, is_token_fee_in_a, reward_last_updated_timestamp) ==
    LET p1 == [pool EXCEPT !.sqrt_price = sqrt_price,
                           !.liquidity = liquidity,
                           !.reward_infos = reward_infos,
                           !.reward_last_updated_timestamp = reward_last_updated_timestamp]
    IN IF is_token_fee_in_a
       THEN [p1 EXCEPT !.fee_growth_global_a = fee_growth_global,
                       !.protocol_fee_owed_a = (pool.protocol_fee_owed_a + protocol_fee) % U64_LIMIT]
       ELSE [p1 EXCEPT !.fee_growth_global_b = fee_growth_global,
                       !.protocol_fee_owed_b = (pool.protocol_fee_owed_b + protocol_fee) % U64_LIMIT]

\* update_after_swap that stores the fee growth of a swap of token B on both
\* tokens
update_after_swap_growth_on_both_tokens(pool, liquidity, tick_index, sqrt_price, fee_growth_global, reward_infos, protocol_fee, is_token_fee_in_a, reward_last_updated_timestamp) ==
    LET p1 == [pool EXCEPT !.tick_current_index = tick_index,
                           !.sqrt_price = sqrt_price,
                           !.liquidity = liquidity,
                           !.reward_infos = reward_infos,
                           !.reward_last_updated_timestamp = reward_last_updated_timestamp]
    IN IF is_token_fee_in_a
       THEN [p1 EXCEPT !.fee_growth_global_a = fee_growth_global,
                       !.protocol_fee_owed_a = (pool.protocol_fee_owed_a + protocol_fee) % U64_LIMIT]
       ELSE [p1 EXCEPT !.fee_growth_global_a = fee_growth_global,
                       !.fee_growth_global_b = fee_growth_global,
                       !.protocol_fee_owed_b = (pool.protocol_fee_owed_b + protocol_fee) % U64_LIMIT]

\* AiDexPool::update_after_swap; the protocol fee is added with the u64 `+=`,
\* which wraps in a build without overflow checks (the instructions decide
\* what a build with overflow checks does)
update_after_swap(pool, liquidity, tick_index, sqrt_price, fee_growth_global, reward_infos, protocol_fee, is_token_fee_in_a, reward_last_updated_timestamp) ==
    LET p1 == [pool EXCEPT !.tick_current_index = tick_index,
                           !.sqrt_price = sqrt_price,
                           !.liquidity = liquidity,
                           !.reward_infos = reward_infos,
                           !.reward_last_updated_timestamp = reward_last_updated_timestamp]
    IN IF is_token_fee_in_a
       THEN [p1 EXCEPT !.fee_growth_global_a = fee_growth_global,
                       !.protocol_fee_owed_a = (pool.protocol_fee_owed_a + protocol_fee) % U64_LIMIT]
       ELSE [p1 EXCEPT !.fee_growth_global_b = fee_growth_global,
                       !.protocol_fee_owed_b = (pool.protocol_fee_owed_b + protocol_fee) % U64_LIMIT]

\* reset_protocol_fees_owed that clears token A only
reset_protocol_fees_owed_of_a_only(pool) ==
    [pool EXCEPT !.protocol_fee_owed_a = 0]

\* AiDexPool::reset_protocol_fees_owed
reset_protocol_fees_owed(pool) ==
    [pool EXCEPT !.protocol_fee_owed_a = 0, !.protocol_fee_owed_b = 0]

\* ------------------------------------------------------------------------
\* Tick store
\* ------------------------------------------------------------------------
ZeroRewards == [i \in RewardIdx |-> 0]

\* Tick::default(): an uninitialized tick
DefaultTick ==
    [initialized |-> FALSE, liquidity_net |-> 0, liquidity_gross |-> 0,
     fee_growth_outside_a |-> 0, fee_growth_outside_b |-> 0,
     reward_growths_outside |-> ZeroRewards]

EmptyTicks == [t \in Ticks |-> DefaultTick]

\* the tick index returned when the tick sequence holds no further
\* initialized tick in the direction of the trade
NoTick == MAX_TICK + 2

\* SwapTickSequence::next_initialized_tick: a_to_b scans down from the
\* current tick (inclusive), otherwise up from the current tick (exclusive)
next_initialized_tick_index(tks, tick_index, a_to_b) ==
    LET cands == IF a_to_b
                 THEN {t \in Ticks : tks[t].initialized /\ t <= tick_index}
                 ELSE {t \in Ticks : tks[t].initialized /\ t > tick_index}
    IN IF cands = {} THEN NoTick
       ELSE IF a_to_b
            THEN CHOOSE t \in cands : \A u \in cands : u <= t
            ELSE CHOOSE t \in cands : \A u \in cands : t <= u

\* reward growth accumulators of the pool
to_reward_growths(reward_infos) == [i \in RewardIdx |-> reward_infos[i].growth_global_x64]

\* roll the pool's reward growth forward to next_timestamp
next_ai_dex_reward_infos(pool, next_timestamp) ==
    LET curr_timestamp == pool.reward_last_updated_timestamp
    IN IF next_timestamp < curr_timestamp
       THEN [err |-> "InvalidTimestampError", reward_infos |-> pool.reward_infos]
       ELSE IF pool.liquidity = 0 \/ next_timestamp = curr_timestamp
       THEN [err |-> "Ok", reward_infos |-> pool.reward_infos]
       ELSE [err |-> "Ok",
             reward_infos |->
               [i \in RewardIdx |->
                  IF ~initialized(pool.reward_infos[i])
                  THEN pool.reward_infos[i]
                  ELSE [pool.reward_infos[i] EXCEPT
                          !.growth_global_x64 = @ +
                             (((next_timestamp - curr_timestamp)
                                 * pool.reward_infos[i].emissions_per_second_x64)
                              \div pool.liquidity)]]]

\* flip the outside accumulators of a crossed tick
next_tick_cross_update(tick, fee_growth_global_a, fee_growth_global_b, reward_infos) ==
    [tick EXCEPT
        !.fee_growth_outside_a = fee_growth_global_a - @,
        !.fee_growth_outside_b = fee_growth_global_b - @,
        !.reward_growths_outside =
            [i \in RewardIdx |->
                IF initialized(reward_infos[i])
                THEN reward_infos[i].growth_global_x64 - tick.reward_growths_outside[i]
                ELSE tick.reward_growths_outside[i]]]

\* ------------------------------------------------------------------------
\* Swap stepping
\* ------------------------------------------------------------------------
\* the sqrt-price reached from p by trading `amount` at liquidity liq
get_next_sqrt_price(p, liq, amount, amount_specified_is_input, a_to_b) ==
    IF amount_specified_is_input = a_to_b
    THEN \* amount is in token A
         IF amount = 0 THEN p
         ELSE IF amount_specified_is_input
              THEN CeilDiv(liq * p * X64, liq * X64 + amount * p)
              ELSE IF liq * X64 <= amount * p THEN 0
                   ELSE CeilDiv(liq * p * X64, liq * X64 - amount * p)
    ELSE \* amount is in token B
         IF amount_specified_is_input
         THEN p + ((amount * X64) \div liq)
         ELSE p - CeilDiv(amount * X64, liq)

\* the delta of the specified side between two prices
get_amount_fixed_delta(p0, p1, liq, amount_specified_is_input, a_to_b) ==
    IF a_to_b = amount_specified_is_input
    THEN get_amount_delta_a(p0, p1, liq, amount_specified_is_input)
    ELSE get_amount_delta_b(p0, p1, liq, amount_specified_is_input)

\* the delta of the other side between two prices
get_amount_unfixed_delta(p0, p1, liq, amount_specified_is_input, a_to_b) ==
    IF a_to_b = amount_specified_is_input
    THEN get_amount_delta_b(p0, p1, liq, ~amount_specified_is_input)
    ELSE get_amount_delta_a(p0, p1, liq, ~amount_specified_is_input)

\* one step of the price walk from sqrt_price_current toward sqrt_price_target
compute_swap(amount_remaining, fee_rate, liq, sqrt_price_current, sqrt_price_target, amount_specified_is_input, a_to_b) ==
    LET amount_calc ==
            IF amount_specified_is_input
            THEN (amount_remaining * (FEE_RATE_MUL_VALUE - fee_rate)) \div FEE_RATE_MUL_VALUE
            ELSE amount_remaining
        amounts(next_sqrt_price, is_max_swap, amount_fixed_delta, amount_unfixed_delta) ==
            LET amount_in == IF amount_specified_is_input
                             THEN amount_fixed_delta ELSE amount_unfixed_delta
                amount_out0 == IF amount_specified_is_input
                               THEN amount_unfixed_delta ELSE amount_fixed_delta
            IN [amount_in |-> amount_in,
                amount_out |-> IF ~amount_specified_is_input /\ amount_out0 > amount_remaining
                               THEN amount_remaining ELSE amount_out0,
                next_price |-> next_sqrt_price,
                fee_amount |->
                    IF amount_specified_is_input /\ ~is_max_swap
                    THEN amount_remaining - amount_in
                    ELSE CeilDiv(amount_in * fee_rate, FEE_RATE_MUL_VALUE - fee_rate)]
        priced(initial_fixed_delta, next_sqrt_price) ==
            amounts(next_sqrt_price, next_sqrt_price = sqrt_price_target,
                IF next_sqrt_price = sqrt_price_target
                THEN initial_fixed_delta
                ELSE get_amount_fixed_delta(sqrt_price_current, next_sqrt_price, liq,
                                            amount_specified_is_input, a_to_b),
                get_amount_unfixed_delta(sqrt_price_current, next_sqrt_price, liq,
                                         amount_specified_is_input, a_to_b))
        started(initial_fixed_delta) ==
            priced(initial_fixed_delta,
                IF amount_calc >= initial_fixed_delta
                THEN sqrt_price_target
                ELSE get_next_sqrt_price(sqrt_price_current, liq, amount_calc,
                                         amount_specified_is_input, a_to_b))
    IN started(get_amount_fixed_delta(sqrt_price_current, sqrt_price_target, liq,
                                      amount_specified_is_input, a_to_b))

\* the loop state after one step toward the tick next_tick_index; `crossed`
\* says that the step ended on that tick's price
swap_step(pool, st, step, next_tick_index, crossed, amount_specified_is_input, a_to_b, reward_infos) ==
    LET protocol_fee_step ==
            (step.fee_amount * pool.protocol_fee_rate) \div PROTOCOL_FEE_RATE_MUL_VALUE
        next_fee_growth ==
            IF st.curr_liquidity > 0
            THEN st.curr_fee_growth_global_input
                     + (((step.fee_amount - protocol_fee_step) * X64) \div st.curr_liquidity)
            ELSE st.curr_fee_growth_global_input
        tick == st.tks[next_tick_index]
        next_liquidity ==
            IF ~crossed THEN st.curr_liquidity
            ELSE IF a_to_b THEN st.curr_liquidity - tick.liquidity_net
            ELSE st.curr_liquidity + tick.liquidity_net
    IN IF step.next_price < MIN_SQRT_PRICE_X64 \/ step.next_price > MAX_SQRT_PRICE_X64
       THEN [st EXCEPT !.err = "SqrtPriceOutOfBoundsError"]
       ELSE IF next_liquidity < 0
       THEN [st EXCEPT !.err = "LiquidityUnderflowError"]
       ELSE [err |-> "Ok",
             amount_remaining |->
                 IF amount_specified_is_input
                 THEN st.amount_remaining - (step.amount_in + step.fee_amount)
                 ELSE st.amount_remaining - step.amount_out,
             amount_calculated |->
                 IF amount_specified_is_input
                 THEN st.amount_calculated + step.amount_out
                 ELSE st.amount_calculated + step.amount_in + step.fee_amount,
             curr_sqrt_price |-> step.next_price,
             curr_tick_index |->
                 IF crossed
                 THEN (IF a_to_b THEN next_tick_index - 1 ELSE next_tick_index)
                 ELSE IF step.next_price # st.curr_sqrt_price
                      THEN tick_index_from_sqrt_price(step.next_price)
                      ELSE st.curr_tick_index,
             curr_liquidity |-> next_liquidity,
             curr_protocol_fee |-> st.curr_protocol_fee + protocol_fee_step,
             curr_fee_growth_global_input |-> next_fee_growth,
             total_fee |-> st.total_fee + step.fee_amount,
             fee_without_liquidity |->
                 IF st.curr_liquidity > 0 THEN st.fee_without_liquidity
                 ELSE st.fee_without_liquidity + step.fee_amount,
             tks |-> IF crossed
                     THEN [st.tks EXCEPT ![next_tick_index] =
                             next_tick_cross_update(tick,
                                 IF a_to_b THEN next_fee_growth ELSE pool.fee_growth_global_a,
                                 IF a_to_b THEN pool.fee_growth_global_b ELSE next_fee_growth,
                                 reward_infos)]
                     ELSE st.tks]

\* the loop of the price walk; st is the loop state
RECURSIVE swap_loop(_, _, _, _, _, _, _)
swap_loop(pool, st, sqrt_price_limit, amount_specified_is_input, a_to_b, reward_infos, fuel) ==
    IF st.err # "Ok" \/ st.amount_remaining = 0 \/ st.curr_sqrt_price = sqrt_price_limit
       \/ fuel = 0
    THEN st
    ELSE
      LET toward(next_tick_index, next_tick_sqrt_price) ==
              LET stepped(step) ==
                      swap_step(pool, st, step, next_tick_index,
                                step.next_price = next_tick_sqrt_price,
                                amount_specified_is_input, a_to_b, reward_infos)
              IN stepped(compute_swap(st.amount_remaining, pool.fee_rate,
                             st.curr_liquidity, st.curr_sqrt_price,
                             IF a_to_b THEN Max(sqrt_price_limit, next_tick_sqrt_price)
                                       ELSE Min(sqrt_price_limit, next_tick_sqrt_price),
                             amount_specified_is_input, a_to_b))
          walk(next_tick_index) ==
              IF next_tick_index = NoTick
              THEN [st EXCEPT !.err = "InvalidTickArraySequenceError"]
              ELSE swap_loop(pool,
                             toward(next_tick_index,
                                    sqrt_price_from_tick_index(next_tick_index)),
                             sqrt_price_limit, amount_specified_is_input, a_to_b,
                             reward_infos, fuel - 1)
      IN walk(next_initialized_tick_index(st.tks, st.curr_tick_index, a_to_b))

\* the value returned by a failed swap computation
SwapError(pool, tks, e) ==
    [err |-> e, amount_a |-> 0, amount_b |-> 0,
     next_liquidity |-> pool.liquidity, next_tick_index |-> pool.tick_current_index,
     next_sqrt_price |-> pool.sqrt_price, next_fee_growth_global |-> 0,
     next_reward_infos |-> pool.reward_infos, next_protocol_fee |-> 0,
     next_ticks |-> tks, total_fee |-> 0, fee_without_liquidity |-> 0]

\* the PostSwapUpdate made of the final loop state st
PostSwapUpdate(pool, tks, amount, amount_specified_is_input, a_to_b, reward_infos, st) ==
    IF st.err # "Ok" THEN SwapError(pool, tks, st.err)
    ELSE [err |-> "Ok",
          amount_a |-> IF a_to_b = amount_specified_is_input
                       THEN amount - st.amount_remaining ELSE st.amount_calculated,
          amount_b |-> IF a_to_b = amount_specified_is_input
                       THEN st.amount_calculated ELSE amount - st.amount_remaining,
          next_liquidity |-> st.curr_liquidity,
          next_tick_index |-> st.curr_tick_index,
          next_sqrt_price |-> st.curr_sqrt_price,
          next_fee_growth_global |-> st.curr_fee_growth_global_input,
          next_reward_infos |-> reward_infos,
          next_protocol_fee |-> st.curr_protocol_fee,
          next_ticks |-> st.tks,
          total_fee |-> st.total_fee,
          fee_without_liquidity |-> st.fee_without_liquidity]

\* swap_orchestrator::swap: the swap kernel; returns the PostSwapUpdate and
\* the tick store with the crossed ticks written back
swap(pool, tks, amount, sqrt_price_limit, amount_specified_is_input, a_to_b, timestamp) ==
    IF sqrt_price_limit < MIN_SQRT_PRICE_X64 \/ sqrt_price_limit > MAX_SQRT_PRICE_X64
    THEN SwapError(pool, tks, "SqrtPriceOutOfBoundsError")
    ELSE IF (a_to_b /\ sqrt_price_limit > pool.sqrt_price)
            \/ (~a_to_b /\ sqrt_price_limit < pool.sqrt_price)
    THEN SwapError(pool, tks, "InvalidSqrtPriceLimitDirectionError")
    ELSE IF amount = 0
    THEN SwapError(pool, tks, "NoTradableAmountError")
    ELSE
      LET walked(rw) ==
              IF rw.err # "Ok" THEN SwapError(pool, tks, rw.err)
              ELSE PostSwapUpdate(pool, tks, amount, amount_specified_is_input, a_to_b,
                       rw.reward_infos,
                       swap_loop(pool,
                           [err |-> "Ok",
                            amount_remaining |-> amount,
                            amount_calculated |-> 0,
                            curr_sqrt_price |-> pool.sqrt_price,
                            curr_tick_index |-> pool.tick_current_index,
                            curr_liquidity |-> pool.liquidity,
                            curr_protocol_fee |-> 0,
                            curr_fee_growth_global_input |->
                                IF a_to_b THEN pool.fee_growth_global_a
                                          ELSE pool.fee_growth_global_b,
                            total_fee |-> 0,
                            fee_without_liquidity |-> 0,
                            tks |-> tks],
                           sqrt_price_limit, amount_specified_is_input, a_to_b,
                           rw.reward_infos, MAX_TICK - MIN_TICK + 2))
      IN walked(next_ai_dex_reward_infos(pool, timestamp))

\* ------------------------------------------------------------------------
\* swap instruction
\* ------------------------------------------------------------------------
\* the amount adjustment charging the owner the whole exact-in amount whatever
\* part of it the kernel consumed
adjust_swap_update_charging_the_whole_amount(pool, tks, in_mint, transfer_fee_included_amount, transfer_fee_excluded_amount, amount_specified_is_input, a_to_b, swap_update) ==
    LET swap_update_amount_input ==
            IF a_to_b THEN swap_update.amount_a ELSE swap_update.amount_b
        swap_update_amount_output ==
            IF a_to_b THEN swap_update.amount_b ELSE swap_update.amount_a
        kernel == [kernel |-> swap_update, kernel_amount |-> transfer_fee_excluded_amount]
        adjusted(adj) ==
            IF adj.err # "Ok" THEN SwapError(pool, tks, adj.err) @@ kernel
            ELSE [swap_update EXCEPT
                     !.amount_a = IF a_to_b THEN adj.amount ELSE swap_update_amount_output,
                     !.amount_b = IF a_to_b THEN swap_update_amount_output ELSE adj.amount]
                 @@ kernel
    IN IF swap_update.err # "Ok" THEN SwapError(pool, tks, swap_update.err) @@ kernel
       ELSE adjusted(IF amount_specified_is_input
                     THEN [err |-> "Ok", amount |-> transfer_fee_included_amount]
                     ELSE [err |-> "Ok", amount |-> swap_update_amount_output])

\* swap_with_transfer_fee_extension, after the kernel's swap_update: the
\* sided amounts adjusted for transfer fees; `kernel` keeps the kernel's own
\* result and kernel_amount the amount it was asked for
adjust_swap_update(pool, tks, in_mint, transfer_fee_included_amount, transfer_fee_excluded_amount, amount_specified_is_input, a_to_b, swap_update) ==
    LET swap_update_amount_input ==
            IF a_to_b THEN swap_update.amount_a ELSE swap_update.amount_b
        swap_update_amount_output ==
            IF a_to_b THEN swap_update.amount_b ELSE swap_update.amount_a
        kernel == [kernel |-> swap_update, kernel_amount |-> transfer_fee_excluded_amount]
        adjusted(adj) ==
            IF adj.err # "Ok" THEN SwapError(pool, tks, adj.err) @@ kernel
            ELSE [swap_update EXCEPT
                     !.amount_a = IF a_to_b THEN adj.amount ELSE swap_update_amount_output,
                     !.amount_b = IF a_to_b THEN swap_update_amount_output ELSE adj.amount]
                 @@ kernel
    IN IF swap_update.err # "Ok" THEN SwapError(pool, tks, swap_update.err) @@ kernel
       ELSE adjusted(IF amount_specified_is_input
                     THEN IF swap_update_amount_input = transfer_fee_excluded_amount
                          THEN [err |-> "Ok", amount |-> transfer_fee_included_amount]
                          ELSE calculate_transfer_fee_included_amount(in_mint,
                                   swap_update_amount_input)
                     ELSE [err |-> "Ok", amount |-> swap_update_amount_output])

\* swap_with_transfer_fee_extension that hands the kernel the exact-in amount
\* with its transfer fee
swap_with_transfer_fee_extension_trading_the_fee(pool, tks, token_mint_a, token_mint_b, amount, sqrt_price_limit, amount_specified_is_input, a_to_b, timestamp) ==
    LET in_mint == IF a_to_b THEN token_mint_a ELSE token_mint_b
        out_mint == IF a_to_b THEN token_mint_b ELSE token_mint_a
        swapped(transfer_fee_included_amount, transfer_fee_excluded_amount) ==
            adjust_swap_update(pool, tks, in_mint, transfer_fee_included_amount,
                transfer_fee_excluded_amount, amount_specified_is_input, a_to_b,
                swap(pool, tks, transfer_fee_excluded_amount, sqrt_price_limit,
                     amount_specified_is_input, a_to_b, timestamp))
        prepared(pre) ==
            IF pre.err # "Ok"
            THEN SwapError(pool, tks, pre.err)
                 @@ [kernel |-> SwapError(pool, tks, pre.err), kernel_amount |-> 0]
            ELSE IF amount_specified_is_input
            THEN swapped(amount, amount)
            ELSE swapped(pre.amount, amount)
    IN prepared(IF amount_specified_is_input
                THEN calculate_transfer_fee_excluded_amount(in_mint, amount)
                ELSE calculate_transfer_fee_included_amount(out_mint, amount))

\* swap_with_transfer_fee_extension: the PostSwapUpdate with the sided
\* amounts adjusted for transfer fees
swap_with_transfer_fee_extension(pool, tks, token_mint_a, token_mint_b, amount, sqrt_price_limit, amount_specified_is_input, a_to_b, timestamp) ==
    LET in_mint == IF a_to_b THEN token_mint_a ELSE token_mint_b
        out_mint == IF a_to_b THEN token_mint_b ELSE token_mint_a
        swapped(transfer_fee_included_amount, transfer_fee_excluded_amount) ==
            adjust_swap_update(pool, tks, in_mint, transfer_fee_included_amount,
                transfer_fee_excluded_amount, amount_specified_is_input, a_to_b,
                swap(pool, tks, transfer_fee_excluded_amount, sqrt_price_limit,
                     amount_specified_is_input, a_to_b, timestamp))
        prepared(pre) ==
            IF pre.err # "Ok"
            THEN SwapError(pool, tks, pre.err)
                 @@ [kernel |-> SwapError(pool, tks, pre.err), kernel_amount |-> 0]
            ELSE IF amount_specified_is_input
            THEN swapped(amount, pre.amount)
            ELSE swapped(pre.amount, amount)
    IN prepared(IF amount_specified_is_input
                THEN calculate_transfer_fee_excluded_amount(in_mint, amount)
                ELSE calculate_transfer_fee_included_amount(out_mint, amount))

\* ------------------------------------------------------------------------
\* Positions and liquidity modification
\* ------------------------------------------------------------------------
\* a position opened on [tick_lower_index, tick_upper_index) with no liquidity
OpenedPosition(pool_id, tick_lower_index, tick_upper_index) ==
    [ai_dex_pool |-> pool_id,
     tick_lower_index |-> tick_lower_index, tick_upper_index |-> tick_upper_index,
     liquidity |-> 0,
     fee_growth_checkpoint_a |-> 0, fee_growth_checkpoint_b |-> 0,
     fee_owed_a |-> 0, fee_owed_b |-> 0,
     reward_infos |-> [i \in RewardIdx |-> [growth_inside_checkpoint |-> 0,
                                            amount_owed |-> 0]]]

\* growth accrued inside [lower, upper) from global and the two outside values
growth_inside(tick_current_index, lower_index, lower_init, lower_outside, upper_index, upper_init, upper_outside, global) ==
    LET below == IF ~lower_init THEN global
                 ELSE IF tick_current_index < lower_index THEN global - lower_outside
                 ELSE lower_outside
        above == IF ~upper_init THEN 0
                 ELSE IF tick_current_index < upper_index THEN upper_outside
                 ELSE global - upper_outside
    IN global - below - above

\* the tick after liquidity_delta is applied to it
next_tick_modify_liquidity_update(tick, tick_index, tick_current_index, fee_growth_global_a, fee_growth_global_b, reward_growths, liquidity_delta, is_upper_tick) ==
    LET gross == tick.liquidity_gross + liquidity_delta
        net == IF is_upper_tick THEN tick.liquidity_net - liquidity_delta
               ELSE tick.liquidity_net + liquidity_delta
        fresh == tick.liquidity_gross = 0
        below == tick_current_index >= tick_index
    IN IF gross < 0 THEN [err |-> "LiquidityUnderflowError", tick |-> tick]
       ELSE IF gross = 0 THEN [err |-> "Ok", tick |-> DefaultTick]
       ELSE [err |-> "Ok",
             tick |-> [initialized |-> TRUE,
                       liquidity_net |-> net,
                       liquidity_gross |-> gross,
                       fee_growth_outside_a |->
                           IF fresh THEN (IF below THEN fee_growth_global_a ELSE 0)
                           ELSE tick.fee_growth_outside_a,
                       fee_growth_outside_b |->
                           IF fresh THEN (IF below THEN fee_growth_global_b ELSE 0)
                           ELSE tick.fee_growth_outside_b,
                       reward_growths_outside |->
                           IF fresh THEN (IF below THEN reward_growths ELSE ZeroRewards)
                           ELSE tick.reward_growths_outside]]

\* the position credited with the growth since its checkpoints, then changed
\* by liquidity_delta
next_position_modify_liquidity_update(position, liquidity_delta, fee_growth_inside_a, fee_growth_inside_b, reward_growths_inside) ==
    [position EXCEPT
        !.liquidity = @ + liquidity_delta,
        !.fee_growth_checkpoint_a = fee_growth_inside_a,
        !.fee_growth_checkpoint_b = fee_growth_inside_b,
        !.fee_owed_a = @ + ((position.liquidity
                              * (fee_growth_inside_a - position.fee_growth_checkpoint_a))
                            \div X64),
        !.fee_owed_b = @ + ((position.liquidity
                              * (fee_growth_inside_b - position.fee_growth_checkpoint_b))
                            \div X64),
        !.reward_infos =
            [i \in RewardIdx |->
                [growth_inside_checkpoint |-> reward_growths_inside[i],
                 amount_owed |-> position.reward_infos[i].amount_owed
                     + ((position.liquidity
                           * (reward_growths_inside[i]
                                - position.reward_infos[i].growth_inside_checkpoint))
                        \div X64)]]]

\* liquidity orchestrator: the ModifyLiquidityUpdate for a signed delta
calculate_modify_liquidity(pool, position, tks, liquidity_delta, timestamp) ==
    LET rw == next_ai_dex_reward_infos(pool, timestamp)
        reward_growths == to_reward_growths(rw.reward_infos)
        li == position.tick_lower_index
        ui == position.tick_upper_index
        tick_lower == tks[li]
        tick_upper == tks[ui]
        lower_update == next_tick_modify_liquidity_update(tick_lower, li,
                            pool.tick_current_index, pool.fee_growth_global_a,
                            pool.fee_growth_global_b, reward_growths, liquidity_delta, FALSE)
        upper_update == next_tick_modify_liquidity_update(tick_upper, ui,
                            pool.tick_current_index, pool.fee_growth_global_a,
                            pool.fee_growth_global_b, reward_growths, liquidity_delta, TRUE)
        inside(lo_out, up_out, global) ==
            growth_inside(pool.tick_current_index, li, tick_lower.initialized, lo_out,
                          ui, tick_upper.initialized, up_out, global)
        fee_growth_inside_a == inside(tick_lower.fee_growth_outside_a,
                                      tick_upper.fee_growth_outside_a,
                                      pool.fee_growth_global_a)
        fee_growth_inside_b == inside(tick_lower.fee_growth_outside_b,
                                      tick_upper.fee_growth_outside_b,
                                      pool.fee_growth_global_b)
        reward_growths_inside ==
            [i \in RewardIdx |->
                IF initialized(rw.reward_infos[i])
                THEN inside(tick_lower.reward_growths_outside[i],
                            tick_upper.reward_growths_outside[i], reward_growths[i])
                ELSE 0]
        in_range == li <= pool.tick_current_index /\ pool.tick_current_index < ui
        failed(e) == [err |-> e, ai_dex_liquidity |-> pool.liquidity,
                      tick_lower_update |-> tick_lower, tick_upper_update |-> tick_upper,
                      reward_infos |-> pool.reward_infos, position_update |-> position]
    IN IF rw.err # "Ok" THEN failed(rw.err)
       ELSE IF position.liquidity + liquidity_delta < 0
       THEN failed("LiquidityUnderflowError")
       ELSE IF lower_update.err # "Ok" THEN failed(lower_update.err)
       ELSE IF upper_update.err # "Ok" THEN failed(upper_update.err)
       ELSE [err |-> "Ok",
             ai_dex_liquidity |-> IF in_range THEN pool.liquidity + liquidity_delta
                                  ELSE pool.liquidity,
             tick_lower_update |-> lower_update.tick,
             tick_upper_update |-> upper_update.tick,
             reward_infos |-> rw.reward_infos,
             position_update |->
                 next_position_modify_liquidity_update(position, liquidity_delta,
                     fee_growth_inside_a, fee_growth_inside_b, reward_growths_inside)]

\* write a ModifyLiquidityUpdate into the pool, the position and the ticks
sync_modify_liquidity_values(pool, position, tks, update, timestamp) ==
    [pool |-> update_rewards_and_liquidity(pool, update.reward_infos,
                                           update.ai_dex_liquidity, timestamp),
     position |-> update.position_update,
     tks |-> [tks EXCEPT ![position.tick_lower_index] = update.tick_lower_update,
                         ![position.tick_upper_index] = update.tick_upper_update]]

\* token amounts that correspond to liquidity_delta on the position's range
calculate_liquidity_token_deltas(tick_current_index, sqrt_price, position, liquidity_delta) ==
    LET liq == IF liquidity_delta < 0 THEN 0 - liquidity_delta ELSE liquidity_delta
        round_up == liquidity_delta > 0
        lower_price == sqrt_price_from_tick_index(position.tick_lower_index)
        upper_price == sqrt_price_from_tick_index(position.tick_upper_index)
    IN IF tick_current_index < position.tick_lower_index
       THEN [delta_a |-> get_amount_delta_a(lower_price, upper_price, liq, round_up),
             delta_b |-> 0]
       ELSE IF tick_current_index < position.tick_upper_index
       THEN [delta_a |-> get_amount_delta_a(sqrt_price, upper_price, liq, round_up),
             delta_b |-> get_amount_delta_b(lower_price, sqrt_price, liq, round_up)]
       ELSE [delta_a |-> 0,
             delta_b |-> get_amount_delta_b(lower_price, upper_price, liq, round_up)]

\* swap_utils::update_and_swap_ai_dex: commit the PostSwapUpdate to the pool
\* and the tick store, then move the input from the owner to the vault and
\* the output from the vault to the owner
update_and_swap_ai_dex(pool, swap_update, is_token_fee_in_a, reward_last_updated_timestamp) ==
    [err |-> "Ok",
     pool |-> update_after_swap(pool, swap_update.next_liquidity,
                  swap_update.next_tick_index, swap_update.next_sqrt_price,
                  swap_update.next_fee_growth_global, swap_update.next_reward_infos,
                  swap_update.next_protocol_fee, is_token_fee_in_a,
                  reward_last_updated_timestamp),
     tks |-> swap_update.next_ticks,
     from_owner |-> IF is_token_fee_in_a THEN swap_update.amount_a ELSE swap_update.amount_b,
     from_vault |-> IF is_token_fee_in_a THEN swap_update.amount_b ELSE swap_update.amount_a]

\* the outcome of an instruction that failed: the transaction is rolled back
Rollback(pool, tks, e) ==
    [err |-> e, pool |-> pool, tks |-> tks, from_owner |-> 0, from_vault |-> 0]

\* swap_handler with the exact-in slippage check made on the output before
\* the output mint's transfer fee is deducted
swap_handler_raw_output(pool, tks, token_mint_a, token_mint_b, amount, other_amount_threshold, sqrt_price_limit, amount_specified_is_input, a_to_b, timestamp) ==
    LET checked(swap_update, output_amount, transfer_fee_included_input_amount) ==
            IF swap_update.err # "Ok"
            THEN Rollback(pool, tks, swap_update.err)
            ELSE IF amount_specified_is_input
                    /\ output_amount < other_amount_threshold
            THEN Rollback(pool, tks, "AmountOutBelowMinimumError")
            ELSE IF ~amount_specified_is_input
                    /\ transfer_fee_included_input_amount > other_amount_threshold
            THEN Rollback(pool, tks, "AmountInAboveMaximumError")
            ELSE update_and_swap_ai_dex(pool, swap_update, a_to_b, timestamp)
        computed(swap_update) ==
            checked(swap_update,
                IF a_to_b THEN swap_update.amount_b ELSE swap_update.amount_a,
                IF a_to_b THEN swap_update.amount_a ELSE swap_update.amount_b)
            @@ [swap_update |-> swap_update]
    IN computed(swap_with_transfer_fee_extension(pool, tks, token_mint_a, token_mint_b,
           amount, sqrt_price_limit, amount_specified_is_input, a_to_b, timestamp))

\* swap_handler
swap_handler(pool, tks, token_mint_a, token_mint_b, amount, other_amount_threshold, sqrt_price_limit, amount_specified_is_input, a_to_b, timestamp) ==
    LET checked(swap_update, transfer_fee_excluded_output_amount,
                transfer_fee_included_input_amount) ==
            IF swap_update.err # "Ok"
            THEN Rollback(pool, tks, swap_update.err)
            ELSE IF amount_specified_is_input
                    /\ transfer_fee_excluded_output_amount < other_amount_threshold
            THEN Rollback(pool, tks, "AmountOutBelowMinimumError")
            ELSE IF ~amount_specified_is_input
                    /\ transfer_fee_included_input_amount > other_amount_threshold
            THEN Rollback(pool, tks, "AmountInAboveMaximumError")
            ELSE update_and_swap_ai_dex(pool, swap_update, a_to_b, timestamp)
        computed(swap_update) ==
            checked(swap_update,
                IF a_to_b
                THEN calculate_transfer_fee_excluded_amount(token_mint_b,
                         swap_update.amount_b).amount
                ELSE calculate_transfer_fee_excluded_amount(token_mint_a,
                         swap_update.amount_a).amount,
                IF a_to_b THEN swap_update.amount_a ELSE swap_update.amount_b)
            @@ [swap_update |-> swap_update]
    IN computed(swap_with_transfer_fee_extension(pool, tks, token_mint_a, token_mint_b,
           amount, sqrt_price_limit, amount_specified_is_input, a_to_b, timestamp))

\* ------------------------------------------------------------------------
\* two_hop_swap instruction
\* ------------------------------------------------------------------------
\* swap_utils::update_and_two_hop_swap_ai_dex: commit both PostSwapUpdates,
\* then move the input from the owner to pool one's vault, the intermediary
\* from pool one's vault to pool two's vault and the output to the owner
update_and_two_hop_swap_ai_dex(swap_update_one, swap_update_two, pool_one, pool_two, a_to_b_one, a_to_b_two, timestamp) ==
    [err |-> "Ok",
     pool_one |-> update_after_swap(pool_one, swap_update_one.next_liquidity,
                      swap_update_one.next_tick_index, swap_update_one.next_sqrt_price,
                      swap_update_one.next_fee_growth_global,
                      swap_update_one.next_reward_infos,
                      swap_update_one.next_protocol_fee, a_to_b_one, timestamp),
     pool_two |-> update_after_swap(pool_two, swap_update_two.next_liquidity,
                      swap_update_two.next_tick_index, swap_update_two.next_sqrt_price,
                      swap_update_two.next_fee_growth_global,
                      swap_update_two.next_reward_infos,
                      swap_update_two.next_protocol_fee, a_to_b_two, timestamp),
     tks_one |-> swap_update_one.next_ticks,
     tks_two |-> swap_update_two.next_ticks,
     from_owner |-> IF a_to_b_one THEN swap_update_one.amount_a ELSE swap_update_one.amount_b,
     between_vaults |->
         IF a_to_b_one THEN swap_update_one.amount_b ELSE swap_update_one.amount_a,
     from_vault |-> IF a_to_b_two THEN swap_update_two.amount_b ELSE swap_update_two.amount_a]

\* the outcome of a two_hop_swap that failed
RollbackTwo(pool_one, pool_two, tks_one, tks_two, e) ==
    [err |-> e, pool_one |-> pool_one, pool_two |-> pool_two,
     tks_one |-> tks_one, tks_two |-> tks_two,
     from_owner |-> 0, between_vaults |-> 0, from_vault |-> 0]

\* two_hop_swap_handler, exact-in: the input of swap two is the output of
\* swap one, whatever swap one returned on that side
swap_two_input_amount_swapped_sides(swap_calc_one, a_to_b_one) ==
    IF a_to_b_one THEN swap_calc_one.amount_a ELSE swap_calc_one.amount_b

swap_two_input_amount(swap_calc_one, a_to_b_one) ==
    IF a_to_b_one THEN swap_calc_one.amount_b ELSE swap_calc_one.amount_a

\* two_hop_swap_handler, exact-out: the output asked of swap one is what
\* swap two returned on its input side, less the intermediary's transfer fee
swap_one_output_amount(token_mint_intermediate, swap_calc_two, a_to_b_two) ==
    calculate_transfer_fee_excluded_amount(token_mint_intermediate,
        IF a_to_b_two THEN swap_calc_two.amount_a ELSE swap_calc_two.amount_b).amount

\* two_hop_swap_handler: all of swap one's output is consumed by swap two
amounts_match_unchecked(swap_update_one, swap_update_two, a_to_b_one, a_to_b_two) ==
    TRUE

amounts_match(swap_update_one, swap_update_two, a_to_b_one, a_to_b_two) ==
    LET swap_calc_one_output ==
            IF a_to_b_one THEN swap_update_one.amount_b ELSE swap_update_one.amount_a
        swap_calc_two_input ==
            IF a_to_b_two THEN swap_update_two.amount_a ELSE swap_update_two.amount_b
    IN swap_calc_one_output = swap_calc_two_input

\* two_hop_swap_handler: the slippage check on the ends of the route, with
\* the exact-in check made on swap two's output before the output mint's
\* transfer fee is deducted
two_hop_slippage_raw_output(swap_update_one, swap_update_two, token_mint_output, other_amount_threshold, amount_specified_is_input, a_to_b_one, a_to_b_two) ==
    LET output_amount ==
            IF a_to_b_two THEN swap_update_two.amount_b ELSE swap_update_two.amount_a
        input_amount ==
            IF a_to_b_one THEN swap_update_one.amount_a ELSE swap_update_one.amount_b
    IN IF amount_specified_is_input
       THEN IF output_amount < other_amount_threshold
            THEN "AmountOutBelowMinimumError" ELSE "Ok"
       ELSE IF input_amount > other_amount_threshold
            THEN "AmountInAboveMaximumError" ELSE "Ok"

\* two_hop_swap_handler: the slippage check on the ends of the route
two_hop_slippage(swap_update_one, swap_update_two, token_mint_output, other_amount_threshold, amount_specified_is_input, a_to_b_one, a_to_b_two) ==
    LET output_amount ==
            calculate_transfer_fee_excluded_amount(token_mint_output,
                IF a_to_b_two THEN swap_update_two.amount_b ELSE swap_update_two.amount_a).amount
        input_amount ==
            IF a_to_b_one THEN swap_update_one.amount_a ELSE swap_update_one.amount_b
    IN IF amount_specified_is_input
       THEN IF output_amount < other_amount_threshold
            THEN "AmountOutBelowMinimumError" ELSE "Ok"
       ELSE IF input_amount > other_amount_threshold
            THEN "AmountInAboveMaximumError" ELSE "Ok"

\* the route checks of two_hop_swap_handler that admit the same pool twice
two_hop_route_admitting_same_pool(key_one, key_two, pool_one, pool_two, a_to_b_one, a_to_b_two) ==
    LET swap_one_output_mint ==
            IF a_to_b_one THEN pool_one.token_mint_b ELSE pool_one.token_mint_a
        swap_two_input_mint ==
            IF a_to_b_two THEN pool_two.token_mint_a ELSE pool_two.token_mint_b
    IN IF swap_one_output_mint # swap_two_input_mint
       THEN "InvalidIntermediaryMintError"
       ELSE "Ok"

\* the route checks of two_hop_swap_handler that accept any intermediary mint
two_hop_route_any_intermediary(key_one, key_two, pool_one, pool_two, a_to_b_one, a_to_b_two) ==
    IF key_one = key_two THEN "DuplicateTwoHopPoolError" ELSE "Ok"

\* the route checks at the head of two_hop_swap_handler: two distinct pools,
\* the second taking the mint the first pays out
two_hop_route(key_one, key_two, pool_one, pool_two, a_to_b_one, a_to_b_two) ==
    LET swap_one_output_mint ==
            IF a_to_b_one THEN pool_one.token_mint_b ELSE pool_one.token_mint_a
        swap_two_input_mint ==
            IF a_to_b_two THEN pool_two.token_mint_a ELSE pool_two.token_mint_b
    IN IF key_one = key_two
       THEN "DuplicateTwoHopPoolError"
       ELSE IF swap_one_output_mint # swap_two_input_mint
       THEN "InvalidIntermediaryMintError"
       ELSE "Ok"

\* two_hop_swap_handler; key_one/key_two are the addresses of the two pool
\* accounts and mint_cfg gives each mint's transfer-fee configuration
two_hop_swap_handler(key_one, key_two, pool_one, pool_two, tks_one, tks_two, mint_cfg, amount, other_amount_threshold, amount_specified_is_input, a_to_b_one, a_to_b_two, sqrt_price_limit_one, sqrt_price_limit_two, timestamp) ==
    LET token_mint_input == mint_cfg[input_token_mint(pool_one, a_to_b_one)]
        token_mint_intermediate == mint_cfg[output_token_mint(pool_one, a_to_b_one)]
        token_mint_output == mint_cfg[output_token_mint(pool_two, a_to_b_two)]
        one_mint_a == IF a_to_b_one THEN token_mint_input ELSE token_mint_intermediate
        one_mint_b == IF a_to_b_one THEN token_mint_intermediate ELSE token_mint_input
        two_mint_a == IF a_to_b_two THEN token_mint_intermediate ELSE token_mint_output
        two_mint_b == IF a_to_b_two THEN token_mint_output ELSE token_mint_intermediate
        fail(e) == RollbackTwo(pool_one, pool_two, tks_one, tks_two, e)
        early(stage) == [stage |-> stage]
        \* both swaps computed: the match and slippage checks, then the commit
        checked(swap_update_one, swap_update_two, second_amount) ==
            LET calc(stage) == [stage |-> stage,
                                swap_update_one |-> swap_update_one,
                                swap_update_two |-> swap_update_two,
                                second_amount |-> second_amount]
                decided(slippage) ==
                    IF ~amounts_match(swap_update_one, swap_update_two,
                                      a_to_b_one, a_to_b_two)
                    THEN fail("AmountMismatchError") @@ calc("match")
                    ELSE IF slippage # "Ok" THEN fail(slippage) @@ calc("slippage")
                    ELSE update_and_two_hop_swap_ai_dex(swap_update_one, swap_update_two,
                             pool_one, pool_two, a_to_b_one, a_to_b_two, timestamp)
                         @@ calc("done")
            IN decided(two_hop_slippage(swap_update_one, swap_update_two,
                           token_mint_output, other_amount_threshold,
                           amount_specified_is_input, a_to_b_one, a_to_b_two))
        swap_one(swap_amount, is_input) ==
            swap_with_transfer_fee_extension(pool_one, tks_one, one_mint_a, one_mint_b,
                swap_amount, sqrt_price_limit_one, is_input, a_to_b_one, timestamp)
        swap_two(swap_amount, is_input) ==
            swap_with_transfer_fee_extension(pool_two, tks_two, two_mint_a, two_mint_b,
                swap_amount, sqrt_price_limit_two, is_input, a_to_b_two, timestamp)
        \* the second swap of the chain, in either order
        second(first_is_one, swap_calc_first, second_amount) ==
            LET settled(swap_calc_second) ==
                    IF swap_calc_second.err # "Ok"
                    THEN fail(swap_calc_second.err) @@ early("second")
                    ELSE IF first_is_one
                    THEN checked(swap_calc_first, swap_calc_second, second_amount)
                    ELSE checked(swap_calc_second, swap_calc_first, second_amount)
            IN settled(IF first_is_one
                       THEN swap_two(second_amount, TRUE)
                       ELSE swap_one(second_amount, FALSE))
        \* the first swap of the chain: swap one for exact-in, swap two for
        \* exact-out
        first(swap_calc_first) ==
            IF swap_calc_first.err # "Ok"
            THEN fail(swap_calc_first.err) @@ early("first")
            ELSE IF amount_specified_is_input
            THEN second(TRUE, swap_calc_first,
                        swap_two_input_amount(swap_calc_first, a_to_b_one))
            ELSE second(FALSE, swap_calc_first,
                        swap_one_output_amount(token_mint_intermediate, swap_calc_first,
                                               a_to_b_two))
        routed(route) ==
            IF route # "Ok"
            THEN fail(route) @@ early("accounts")
            ELSE first(IF amount_specified_is_input
                       THEN swap_one(amount, TRUE)
                       ELSE swap_two(amount, FALSE))
    IN routed(two_hop_route(key_one, key_two, pool_one, pool_two, a_to_b_one, a_to_b_two))

\* ------------------------------------------------------------------------
\* Liquidity instructions
\* ------------------------------------------------------------------------
\* the outcome of a liquidity instruction that failed
RollbackLiq(pool, position, tks, e) ==
    [err |-> e, pool |-> pool, position |-> position, tks |-> tks,
     delta_a |-> 0, delta_b |-> 0, from_owner_a |-> 0, from_owner_b |-> 0,
     from_vault_a |-> 0, from_vault_b |-> 0]

\* increase_liquidity_handler whose limit failure keeps the liquidity change
increase_liquidity_handler_keeping_change(pool, position, tks, token_mint_a, token_mint_b, authorized, liquidity_amount, token_max_a, token_max_b, timestamp) ==
    LET liquidity_delta == liquidity_amount
        fail(e) == RollbackLiq(pool, position, tks, e)
        transferred(synced, deltas, transfer_fee_included_delta_a,
                    transfer_fee_included_delta_b) ==
            IF transfer_fee_included_delta_a.err # "Ok"
            THEN fail(transfer_fee_included_delta_a.err)
            ELSE IF transfer_fee_included_delta_b.err # "Ok"
            THEN fail(transfer_fee_included_delta_b.err)
            ELSE IF transfer_fee_included_delta_a.amount > token_max_a
                    \/ transfer_fee_included_delta_b.amount > token_max_b
            THEN RollbackLiq(synced.pool, synced.position, synced.tks,
                             "TokenLimitExceededError")
            ELSE [err |-> "Ok", pool |-> synced.pool, position |-> synced.position,
                  tks |-> synced.tks,
                  delta_a |-> deltas.delta_a, delta_b |-> deltas.delta_b,
                  from_owner_a |-> transfer_fee_included_delta_a.amount,
                  from_owner_b |-> transfer_fee_included_delta_b.amount,
                  from_vault_a |-> 0, from_vault_b |-> 0]
        priced(synced, deltas) ==
            transferred(synced, deltas,
                calculate_transfer_fee_included_amount(token_mint_a, deltas.delta_a),
                calculate_transfer_fee_included_amount(token_mint_b, deltas.delta_b))
        stored(synced) ==
            priced(synced,
                calculate_liquidity_token_deltas(synced.pool.tick_current_index,
                    synced.pool.sqrt_price, synced.position, liquidity_delta))
        modified(update) ==
            IF update.err # "Ok" THEN fail(update.err)
            ELSE stored(sync_modify_liquidity_values(pool, position, tks, update, timestamp))
    IN IF ~authorized THEN fail("InvalidPositionTokenAmountError")
       ELSE IF liquidity_amount = 0 THEN fail("ZeroLiquidityError")
       ELSE modified(calculate_modify_liquidity(pool, position, tks, liquidity_delta,
                                                timestamp))

\* increase_liquidity_handler that does not refuse a liquidity amount of zero
increase_liquidity_handler_admitting_zero(pool, position, tks, token_mint_a, token_mint_b, authorized, liquidity_amount, token_max_a, token_max_b, timestamp) ==
    LET liquidity_delta == liquidity_amount
        fail(e) == RollbackLiq(pool, position, tks, e)
        transferred(synced, deltas, transfer_fee_included_delta_a,
                    transfer_fee_included_delta_b) ==
            IF transfer_fee_included_delta_a.err # "Ok"
            THEN fail(transfer_fee_included_delta_a.err)
            ELSE IF transfer_fee_included_delta_b.err # "Ok"
            THEN fail(transfer_fee_included_delta_b.err)
            ELSE IF transfer_fee_included_delta_a.amount > token_max_a
            THEN fail("TokenLimitExceededError")
            ELSE IF transfer_fee_included_delta_b.amount > token_max_b
            THEN fail("TokenLimitExceededError")
            ELSE [err |-> "Ok", pool |-> synced.pool, position |-> synced.position,
                  tks |-> synced.tks,
                  delta_a |-> deltas.delta_a, delta_b |-> deltas.delta_b,
                  from_owner_a |-> transfer_fee_included_delta_a.amount,
                  from_owner_b |-> transfer_fee_included_delta_b.amount,
                  from_vault_a |-> 0, from_vault_b |-> 0]
        priced(synced, deltas) ==
            transferred(synced, deltas,
                calculate_transfer_fee_included_amount(token_mint_a, deltas.delta_a),
                calculate_transfer_fee_included_amount(token_mint_b, deltas.delta_b))
        stored(synced) ==
            priced(synced,
                calculate_liquidity_token_deltas(synced.pool.tick_current_index,
                    synced.pool.sqrt_price, synced.position, liquidity_delta))
        modified(update) ==
            IF update.err # "Ok" THEN fail(update.err)
            ELSE stored(sync_modify_liquidity_values(pool, position, tks, update, timestamp))
    IN IF ~authorized THEN fail("InvalidPositionTokenAmountError")
       ELSE modified(calculate_modify_liquidity(pool, position, tks, liquidity_delta,
                                                timestamp))

\* increase_liquidity_handler; authorized is the verdict of
\* verify_position_authority on the signer
increase_liquidity_handler(pool, position, tks, token_mint_a, token_mint_b, authorized, liquidity_amount, token_max_a, token_max_b, timestamp) ==
    LET liquidity_delta == liquidity_amount
        fail(e) == RollbackLiq(pool, position, tks, e)
        transferred(synced, deltas, transfer_fee_included_delta_a,
                    transfer_fee_included_delta_b) ==
            IF transfer_fee_included_delta_a.err # "Ok"
            THEN fail(transfer_fee_included_delta_a.err)
            ELSE IF transfer_fee_included_delta_b.err # "Ok"
            THEN fail(transfer_fee_included_delta_b.err)
            ELSE IF transfer_fee_included_delta_a.amount > token_max_a
            THEN fail("TokenLimitExceededError")
            ELSE IF transfer_fee_included_delta_b.amount > token_max_b
            THEN fail("TokenLimitExceededError")
            ELSE [err |-> "Ok", pool |-> synced.pool, position |-> synced.position,
                  tks |-> synced.tks,
                  delta_a |-> deltas.delta_a, delta_b |-> deltas.delta_b,
                  from_owner_a |-> transfer_fee_included_delta_a.amount,
                  from_owner_b |-> transfer_fee_included_delta_b.amount,
                  from_vault_a |-> 0, from_vault_b |-> 0]
        priced(synced, deltas) ==
            transferred(synced, deltas,
                calculate_transfer_fee_included_amount(token_mint_a, deltas.delta_a),
                calculate_transfer_fee_included_amount(token_mint_b, deltas.delta_b))
        stored(synced) ==
            priced(synced,
                calculate_liquidity_token_deltas(synced.pool.tick_current_index,
                    synced.pool.sqrt_price, synced.position, liquidity_delta))
        modified(update) ==
            IF update.err # "Ok" THEN fail(update.err)
            ELSE stored(sync_modify_liquidity_values(pool, position, tks, update, timestamp))
    IN IF ~authorized THEN fail("InvalidPositionTokenAmountError")
       ELSE IF liquidity_amount = 0 THEN fail("ZeroLiquidityError")
       ELSE modified(calculate_modify_liquidity(pool, position, tks, liquidity_delta,
                                                timestamp))

\* decrease_liquidity_handler that compares the minimum with the amount the
\* vault sends, before the transfer fee
decrease_liquidity_handler_minimum_before_fee(pool, position, tks, token_mint_a, token_mint_b, authorized, liquidity_amount, token_min_a, token_min_b, timestamp) ==
    LET liquidity_delta == 0 - liquidity_amount
        fail(e) == RollbackLiq(pool, position, tks, e)
        transferred(synced, deltas, transfer_fee_excluded_delta_a,
                    transfer_fee_excluded_delta_b) ==
            IF deltas.delta_a < token_min_a
            THEN fail("TokenAmountBelowMinimumError")
            ELSE IF deltas.delta_b < token_min_b
            THEN fail("TokenAmountBelowMinimumError")
            ELSE [err |-> "Ok", pool |-> synced.pool, position |-> synced.position,
                  tks |-> synced.tks,
                  delta_a |-> deltas.delta_a, delta_b |-> deltas.delta_b,
                  from_owner_a |-> 0, from_owner_b |-> 0,
                  from_vault_a |-> deltas.delta_a, from_vault_b |-> deltas.delta_b]
        priced(synced, deltas) ==
            transferred(synced, deltas,
                calculate_transfer_fee_excluded_amount(token_mint_a, deltas.delta_a),
                calculate_transfer_fee_excluded_amount(token_mint_b, deltas.delta_b))
        stored(synced) ==
            priced(synced,
                calculate_liquidity_token_deltas(synced.pool.tick_current_index,
                    synced.pool.sqrt_price, synced.position, liquidity_delta))
        modified(update) ==
            IF update.err # "Ok" THEN fail(update.err)
            ELSE stored(sync_modify_liquidity_values(pool, position, tks, update, timestamp))
    IN IF ~authorized THEN fail("InvalidPositionTokenAmountError")
       ELSE IF liquidity_amount = 0 THEN fail("ZeroLiquidityError")
       ELSE modified(calculate_modify_liquidity(pool, position, tks, liquidity_delta,
                                                timestamp))

\* decrease_liquidity_handler
decrease_liquidity_handler(pool, position, tks, token_mint_a, token_mint_b, authorized, liquidity_amount, token_min_a, token_min_b, timestamp) ==
    LET liquidity_delta == 0 - liquidity_amount
        fail(e) == RollbackLiq(pool, position, tks, e)
        transferred(synced, deltas, transfer_fee_excluded_delta_a,
                    transfer_fee_excluded_delta_b) ==
            IF transfer_fee_excluded_delta_a.amount < token_min_a
            THEN fail("TokenAmountBelowMinimumError")
            ELSE IF transfer_fee_excluded_delta_b.amount < token_min_b
            THEN fail("TokenAmountBelowMinimumError")
            ELSE [err |-> "Ok", pool |-> synced.pool, position |-> synced.position,
                  tks |-> synced.tks,
                  delta_a |-> deltas.delta_a, delta_b |-> deltas.delta_b,
                  from_owner_a |-> 0, from_owner_b |-> 0,
                  from_vault_a |-> deltas.delta_a, from_vault_b |-> deltas.delta_b]
        priced(synced, deltas) ==
            transferred(synced, deltas,
                calculate_transfer_fee_excluded_amount(token_mint_a, deltas.delta_a),
                calculate_transfer_fee_excluded_amount(token_mint_b, deltas.delta_b))
        stored(synced) ==
            priced(synced,
                calculate_liquidity_token_deltas(synced.pool.tick_current_index,
                    synced.pool.sqrt_price, synced.position, liquidity_delta))
        modified(update) ==
            IF update.err # "Ok" THEN fail(update.err)
            ELSE stored(sync_modify_liquidity_values(pool, position, tks, update, timestamp))
    IN IF ~authorized THEN fail("InvalidPositionTokenAmountError")
       ELSE IF liquidity_amount = 0 THEN fail("ZeroLiquidityError")
       ELSE modified(calculate_modify_liquidity(pool, position, tks, liquidity_delta,
                                                timestamp))

\* ------------------------------------------------------------------------
\* Fee and reward instructions
\* ------------------------------------------------------------------------
\* current fee and reward checkpoints of a position and the rolled-forward
\* reward infos of its pool
calculate_fee_and_reward_growths(pool, position, tks, timestamp) ==
    calculate_modify_liquidity(pool, position, tks, 0, timestamp)

\* update_fees_and_rewards_handler
update_fees_and_rewards_handler(pool, position, tks, timestamp) ==
    LET stored(update) ==
            IF update.err # "Ok"
            THEN [err |-> update.err, pool |-> pool, position |-> position]
            ELSE [err |-> "Ok",
                  pool |-> update_rewards(pool, update.reward_infos, timestamp),
                  position |-> update.position_update]
    IN stored(calculate_fee_and_reward_growths(pool, position, tks, timestamp))

\* math::checked_mul_shift_right: (n0 * n1) >> 64 as a u64
checked_mul_shift_right(n0, n1) ==
    IF (n0 * n1) \div X64 >= U64_LIMIT
    THEN [err |-> "MultiplicationShiftRightOverflowError", value |-> 0]
    ELSE [err |-> "Ok", value |-> (n0 * n1) \div X64]

\* set_reward_emissions_handler that refuses a vault holding exactly one day
\* of emissions
set_reward_emissions_handler_strict_balance(pool, signer, reward_index, emissions_per_second_x64, vault_amount, timestamp) ==
    LET emissions_per_day == checked_mul_shift_right(DAY_IN_SECONDS, emissions_per_second_x64)
        next == next_ai_dex_reward_infos(pool, timestamp)
    IN IF reward_index >= NUM_REWARDS
       THEN [err |-> "ProgramFailedToComplete", pool |-> pool]
       ELSE IF signer # pool.reward_infos[reward_index].authority
       THEN [err |-> "ConstraintAddress", pool |-> pool]
       ELSE IF pool.reward_infos[reward_index].vault = DefaultPubkey
       THEN [err |-> "AccountOwnedByWrongProgram", pool |-> pool]
       ELSE IF emissions_per_day.err # "Ok"
       THEN [err |-> emissions_per_day.err, pool |-> pool]
       ELSE IF vault_amount <= emissions_per_day.value
       THEN [err |-> "InsufficientRewardVaultAmountError", pool |-> pool]
       ELSE IF next.err # "Ok" THEN [err |-> next.err, pool |-> pool]
       ELSE update_emissions(pool, reward_index, next.reward_infos, timestamp,
                             emissions_per_second_x64)

\* set_reward_emissions_handler that stores the new rate before it rolls the
\* rewards forward
set_reward_emissions_handler_storing_first(pool, signer, reward_index, emissions_per_second_x64, vault_amount, timestamp) ==
    LET emissions_per_day == checked_mul_shift_right(DAY_IN_SECONDS, emissions_per_second_x64)
        next == next_ai_dex_reward_infos(
                    [pool EXCEPT !.reward_infos[reward_index].emissions_per_second_x64 =
                                     emissions_per_second_x64], timestamp)
    IN IF reward_index >= NUM_REWARDS
       THEN [err |-> "ProgramFailedToComplete", pool |-> pool]
       ELSE IF signer # pool.reward_infos[reward_index].authority
       THEN [err |-> "ConstraintAddress", pool |-> pool]
       ELSE IF pool.reward_infos[reward_index].vault = DefaultPubkey
       THEN [err |-> "AccountOwnedByWrongProgram", pool |-> pool]
       ELSE IF emissions_per_day.err # "Ok"
       THEN [err |-> emissions_per_day.err, pool |-> pool]
       ELSE IF vault_amount < emissions_per_day.value
       THEN [err |-> "InsufficientRewardVaultAmountError", pool |-> pool]
       ELSE IF next.err # "Ok" THEN [err |-> next.err, pool |-> pool]
       ELSE update_emissions(pool, reward_index, next.reward_infos, timestamp,
                             emissions_per_second_x64)

\* set_reward_emissions_handler that takes any account for the reward vault
set_reward_emissions_handler_any_vault(pool, signer, reward_index, emissions_per_second_x64, vault_amount, timestamp) ==
    LET emissions_per_day == checked_mul_shift_right(DAY_IN_SECONDS, emissions_per_second_x64)
        next == next_ai_dex_reward_infos(pool, timestamp)
    IN IF reward_index >= NUM_REWARDS
       THEN [err |-> "ProgramFailedToComplete", pool |-> pool]
       ELSE IF signer # pool.reward_infos[reward_index].authority
       THEN [err |-> "ConstraintAddress", pool |-> pool]
       ELSE IF emissions_per_day.err # "Ok"
       THEN [err |-> emissions_per_day.err, pool |-> pool]
       ELSE IF vault_amount < emissions_per_day.value
       THEN [err |-> "InsufficientRewardVaultAmountError", pool |-> pool]
       ELSE IF next.err # "Ok" THEN [err |-> next.err, pool |-> pool]
       ELSE update_emissions(pool, reward_index, next.reward_infos, timestamp,
                             emissions_per_second_x64)

\* set_reward_emissions_handler behind the SetRewardEmissions account
\* constraints; vault_amount is the balance of the reward vault account
set_reward_emissions_handler(pool, signer, reward_index, emissions_per_second_x64, vault_amount, timestamp) ==
    LET emissions_per_day == checked_mul_shift_right(DAY_IN_SECONDS, emissions_per_second_x64)
        next == next_ai_dex_reward_infos(pool, timestamp)
    IN IF reward_index >= NUM_REWARDS
       THEN [err |-> "ProgramFailedToComplete", pool |-> pool]
       ELSE IF signer # pool.reward_infos[reward_index].authority
       THEN [err |-> "ConstraintAddress", pool |-> pool]
       ELSE IF pool.reward_infos[reward_index].vault = DefaultPubkey
       THEN [err |-> "AccountOwnedByWrongProgram", pool |-> pool]
       ELSE IF emissions_per_day.err # "Ok"
       THEN [err |-> emissions_per_day.err, pool |-> pool]
       ELSE IF vault_amount < emissions_per_day.value
       THEN [err |-> "InsufficientRewardVaultAmountError", pool |-> pool]
       ELSE IF next.err # "Ok" THEN [err |-> next.err, pool |-> pool]
       ELSE update_emissions(pool, reward_index, next.reward_infos, timestamp,
                             emissions_per_second_x64)

\* initialize_reward_handler behind the InitializeReward account constraints
initialize_reward_handler(pool, signer, reward_index, reward_mint_key, reward_mint, reward_token_wrapper, reward_vault) ==
    IF reward_index >= NUM_REWARDS
    THEN [err |-> "ProgramFailedToComplete", pool |-> pool]
    ELSE IF signer # pool.reward_infos[reward_index].authority
    THEN [err |-> "ConstraintAddress", pool |-> pool]
    ELSE IF ~is_supported_token_mint(reward_mint,
                is_token_wrapper_initialized(pool.ai_dex_config, reward_mint_key,
                                             reward_token_wrapper))
    THEN [err |-> "UnsupportedTokenMintError", pool |-> pool]
    ELSE initialize_reward(pool, reward_index, reward_mint_key, reward_vault)

\* initialize_pool_handler: both mints must be supported before the pool
\* account is initialized
initialize_pool_handler(pool, ai_dex_config, tick_spacing, initial_sqrt_price, default_fee_rate, token_mint_a_key, token_mint_a, token_wrapper_a, token_vault_a, token_mint_b_key, token_mint_b, token_wrapper_b, token_vault_b) ==
    IF ~is_supported_token_mint(token_mint_a,
            is_token_wrapper_initialized(ai_dex_config.key, token_mint_a_key,
                                         token_wrapper_a))
    THEN [err |-> "UnsupportedTokenMintError", pool |-> pool]
    ELSE IF ~is_supported_token_mint(token_mint_b,
                is_token_wrapper_initialized(ai_dex_config.key, token_mint_b_key,
                                             token_wrapper_b))
    THEN [err |-> "UnsupportedTokenMintError", pool |-> pool]
    ELSE initialize(pool, ai_dex_config, tick_spacing, initial_sqrt_price,
                    default_fee_rate, token_mint_a_key, token_vault_a,
                    token_mint_b_key, token_vault_b)

\* set_reward_authority_handler that admits any signer
set_reward_authority_handler_any_signer(pool, signer, reward_index, new_reward_authority) ==
    IF reward_index >= NUM_REWARDS
    THEN [err |-> "ProgramFailedToComplete", pool |-> pool]
    ELSE update_reward_authority(pool, reward_index, new_reward_authority)

\* set_reward_authority_handler behind the SetRewardAuthority constraints
set_reward_authority_handler(pool, signer, reward_index, new_reward_authority) ==
    IF reward_index >= NUM_REWARDS
    THEN [err |-> "ProgramFailedToComplete", pool |-> pool]
    ELSE IF signer # pool.reward_infos[reward_index].authority
    THEN [err |-> "ConstraintAddress", pool |-> pool]
    ELSE update_reward_authority(pool, reward_index, new_reward_authority)

\* set_fee_rate_handler: the admin instruction over AiDexPool::update_fee_rate
set_fee_rate_handler(pool, fee_rate) == update_fee_rate(pool, fee_rate)

\* set_protocol_fee_rate_handler: the admin instruction over
\* AiDexPool::update_protocol_fee_rate
set_protocol_fee_rate_handler(pool, protocol_fee_rate) ==
    update_protocol_fee_rate(pool, protocol_fee_rate)

\* collect_protocol_fees_handler behind the CollectProtocolFees constraints
collect_protocol_fees_handler(pool, signer, ai_dex_config) ==
    IF pool.ai_dex_config # ai_dex_config.key
    THEN [err |-> "ConstraintHasOne", pool |-> pool, from_vault_a |-> 0, from_vault_b |-> 0]
    ELSE IF signer # ai_dex_config.config_authority
    THEN [err |-> "ConstraintAddress", pool |-> pool, from_vault_a |-> 0, from_vault_b |-> 0]
    ELSE [err |-> "Ok", pool |-> reset_protocol_fees_owed(pool),
          from_vault_a |-> pool.protocol_fee_owed_a,
          from_vault_b |-> pool.protocol_fee_owed_b]

\* ------------------------------------------------------------------------
\* Accounts of the model
\* ------------------------------------------------------------------------
PoolIds == {1, 2}
MintIds == {1, 2, 3}
PositionIds == {1, 2, 3}
ConfigAuthority == 21
OtherAuthority == 22
LiqUnit == 256
Emission == 4 * X64
VaultBalance == 4 * DAY_IN_SECONDS
\* an emission rate whose daily amount no u64 holds
HugeEmission == (U64_LIMIT * X64) \div DAY_IN_SECONDS + 1

\* the config account of both pools
Config == [key |-> 31, default_protocol_fee_rate |-> 2500,
           config_authority |-> ConfigAuthority]
\* the config account of another deployment, with its own authority
OtherConfig == [key |-> 32, default_protocol_fee_rate |-> 2500,
                config_authority |-> OtherAuthority]

PoolMintA(p) == p
PoolMintB(p) == p + 1
PoolVaultA(p) == 10 + 2 * p
PoolVaultB(p) == 11 + 2 * p

\* pool p right after initialize_pool at the given price
InitializedPool(p, sqrt_price) ==
    initialize(DefaultPool, Config, 1, sqrt_price, MAX_FEE_RATE,
               PoolMintA(p), PoolVaultA(p), PoolMintB(p), PoolVaultB(p)).pool

\* the positions opened in the model: two overlapping ranges on pool 1, one
\* range on pool 2
OpenedPositions ==
    [i \in PositionIds |->
        CASE i = 1 -> OpenedPosition(1, -1, 1)
          [] i = 2 -> OpenedPosition(1, 0, 2)
          [] i = 3 -> OpenedPosition(2, -1, 1)]

NoFees == [m \in MintIds |-> NoTransferFee]
FeeOnTwo == [NoFees EXCEPT ![2] = TransferFee(1000, 5)]
FeeOnOneThree == [NoFees EXCEPT ![1] = TransferFee(1000, 5), ![3] = TransferFee(500, 2)]
MintConfigs == {NoFees, FeeOnTwo, FeeOnOneThree}

NoOp == [op |-> "none", err |-> "Ok"]

\* state st after position i deposited liquidity_amount (no token limits)
Deposited(st, i, liquidity_amount) ==
    LET p == st.positions[i].ai_dex_pool
        stored(r) ==
            [pools |-> [st.pools EXCEPT ![p] = r.pool],
             ticks |-> [st.ticks EXCEPT ![p] = r.tks],
             positions |-> [st.positions EXCEPT ![i] = r.position],
             mints |-> st.mints]
    IN stored(increase_liquidity_handler(st.pools[p], st.positions[i], st.ticks[p],
                  st.mints[st.pools[p].token_mint_a], st.mints[st.pools[p].token_mint_b],
                  TRUE, liquidity_amount, 100000, 100000, 0))

\* both pools initialized at the given prices, positions opened
Fresh(mint_cfg, price_one, price_two) ==
    [mints |-> mint_cfg,
     pools |-> [p \in PoolIds |-> InitializedPool(p, IF p = 1 THEN price_one ELSE price_two)],
     ticks |-> [p \in PoolIds |-> EmptyTicks],
     positions |-> OpenedPositions]

\* both pools initialized and every position funded with one LiqUnit
Funded(mint_cfg, price_one, price_two) ==
    Deposited(Deposited(Deposited(Fresh(mint_cfg, price_one, price_two), 1, LiqUnit),
                        2, LiqUnit), 3, LiqUnit)

\* state st after reward 0 of pool 1 was initialized (mint 3) and set to emit
Rewarded(st) ==
    LET emitting(reward) ==
            set_reward_emissions_handler(reward.pool, ConfigAuthority, 0, Emission,
                                         VaultBalance, 0).pool
    IN [st EXCEPT !.pools[1] =
            emitting(initialize_reward_handler(st.pools[1], ConfigAuthority, 0, 3,
                                               st.mints[3], NoTokenWrapper, 40))]

\* ------------------------------------------------------------------------
\* Instructions as actions
\* ------------------------------------------------------------------------
MintA(p) == mints[pools[p].token_mint_a]
MintB(p) == mints[pools[p].token_mint_b]

\* swap on pool p
\* the u64 `+=` of update_after_swap went past the accumulator's width
AddAssignOverflowed(before, after) ==
    \/ after.protocol_fee_owed_a < before.protocol_fee_owed_a
    \/ after.protocol_fee_owed_b < before.protocol_fee_owed_b

\* what a swap on the pool can leave behind: the handler's result, and where
\* the `+=` of update_after_swap overflowed also the abort of the instruction
\* in a build with overflow checks
SwapOutcomes(pool, tks, r) ==
    IF r.err = "Ok" /\ AddAssignOverflowed(pool, r.pool)
    THEN {r, Rollback(pool, tks, "ProgramFailedToComplete") @@ r}
    ELSE {r}

Swap(p, amount, other_amount_threshold, sqrt_price_limit, amount_specified_is_input, a_to_b) ==
    /\ \E h \in {swap_handler(pools[p], ticks[p], MintA(p), MintB(p), amount,
                     other_amount_threshold, sqrt_price_limit, amount_specified_is_input,
                     a_to_b, now)} :
        \E r \in SwapOutcomes(pools[p], ticks[p], h) :
          LET u == r.swap_update
          IN /\ pools' = [pools EXCEPT ![p] = r.pool]
             /\ ticks' = [ticks EXCEPT ![p] = r.tks]
             /\ last' = [op |-> "swap", err |-> r.err, pool |-> p,
                         amount |-> amount,
                         other_amount_threshold |-> other_amount_threshold,
                         sqrt_price_limit |-> sqrt_price_limit,
                         amount_specified_is_input |-> amount_specified_is_input,
                         a_to_b |-> a_to_b,
                         calc_err |-> u.err,
                         amount_a |-> u.amount_a, amount_b |-> u.amount_b,
                         kernel_amount |-> u.kernel_amount,
                         kernel_a |-> u.kernel.amount_a, kernel_b |-> u.kernel.amount_b,
                         total_fee |-> u.kernel.total_fee,
                         protocol_fee |-> u.kernel.next_protocol_fee,
                         fee_without_liquidity |-> u.kernel.fee_without_liquidity,
                         from_owner |-> r.from_owner, from_vault |-> r.from_vault]
    /\ ops' = ops + 1
    /\ UNCHANGED <<positions, mints, now>>

\* two_hop_swap through the pool accounts one and two
\* what a two_hop_swap can leave behind: the handler's result, and where a
\* `+=` of update_after_swap overflowed also the abort of the instruction in
\* a build with overflow checks
TwoHopSwapOutcomes(pool_one, pool_two, tks_one, tks_two, r) ==
    IF r.err = "Ok" /\ (AddAssignOverflowed(pool_one, r.pool_one)
                           \/ AddAssignOverflowed(pool_two, r.pool_two))
    THEN {r, [r EXCEPT !.err = "ProgramFailedToComplete", !.stage = "abort",
                       !.pool_one = pool_one, !.pool_two = pool_two,
                       !.tks_one = tks_one, !.tks_two = tks_two,
                       !.from_owner = 0, !.between_vaults = 0, !.from_vault = 0]}
    ELSE {r}

TwoHopSwap(one, two, amount, other_amount_threshold, amount_specified_is_input, a_to_b_one, a_to_b_two, sqrt_price_limit_one, sqrt_price_limit_two) ==
    /\ \E h \in {two_hop_swap_handler(one, two, pools[one], pools[two], ticks[one],
                     ticks[two], mints, amount, other_amount_threshold,
                     amount_specified_is_input, a_to_b_one, a_to_b_two,
                     sqrt_price_limit_one, sqrt_price_limit_two, now)} :
        \E r \in TwoHopSwapOutcomes(pools[one], pools[two], ticks[one], ticks[two], h) :
          LET computed == r.stage \in {"match", "slippage", "done"}
              u1 == r.swap_update_one
              u2 == r.swap_update_two
          IN /\ pools' = [q \in PoolIds |->
                             IF q = one THEN r.pool_one
                             ELSE IF q = two THEN r.pool_two ELSE pools[q]]
             /\ ticks' = [q \in PoolIds |->
                             IF q = one THEN r.tks_one
                             ELSE IF q = two THEN r.tks_two ELSE ticks[q]]
             /\ last' = [op |-> "two_hop_swap", err |-> r.err, stage |-> r.stage,
                         one |-> one, two |-> two,
                         amount |-> amount,
                         other_amount_threshold |-> other_amount_threshold,
                         amount_specified_is_input |-> amount_specified_is_input,
                         a_to_b_one |-> a_to_b_one, a_to_b_two |-> a_to_b_two,
                         second_amount |-> IF computed THEN r.second_amount ELSE 0,
                         one_amount_a |-> IF computed THEN u1.amount_a ELSE 0,
                         one_amount_b |-> IF computed THEN u1.amount_b ELSE 0,
                         one_kernel_amount |-> IF computed THEN u1.kernel_amount ELSE 0,
                         one_kernel_a |-> IF computed THEN u1.kernel.amount_a ELSE 0,
                         one_kernel_b |-> IF computed THEN u1.kernel.amount_b ELSE 0,
                         two_amount_a |-> IF computed THEN u2.amount_a ELSE 0,
                         two_amount_b |-> IF computed THEN u2.amount_b ELSE 0,
                         two_kernel_amount |-> IF computed THEN u2.kernel_amount ELSE 0,
                         two_kernel_a |-> IF computed THEN u2.kernel.amount_a ELSE 0,
                         two_kernel_b |-> IF computed THEN u2.kernel.amount_b ELSE 0,
                         one_total_fee |-> IF computed THEN u1.kernel.total_fee ELSE 0,
                         two_total_fee |-> IF computed THEN u2.kernel.total_fee ELSE 0,
                         one_fee_without_liquidity |->
                             IF computed THEN u1.kernel.fee_without_liquidity ELSE 0,
                         two_fee_without_liquidity |->
                             IF computed THEN u2.kernel.fee_without_liquidity ELSE 0,
                         from_owner |-> r.from_owner,
                         between_vaults |-> r.between_vaults,
                         from_vault |-> r.from_vault]
    /\ ops' = ops + 1
    /\ UNCHANGED <<positions, mints, now>>

\* increase_liquidity on position i
IncreaseLiquidity(i, authorized, liquidity_amount, token_max_a, token_max_b) ==
    /\ LET p == positions[i].ai_dex_pool
       IN \E r \in {increase_liquidity_handler(pools[p], positions[i], ticks[p], MintA(p),
                        MintB(p), authorized, liquidity_amount, token_max_a, token_max_b, now)} :
             /\ pools' = [pools EXCEPT ![p] = r.pool]
             /\ ticks' = [ticks EXCEPT ![p] = r.tks]
             /\ positions' = [positions EXCEPT ![i] = r.position]
             /\ last' = [op |-> "increase_liquidity", err |-> r.err, pool |-> p,
                         position |-> i, authorized |-> authorized,
                         liquidity_amount |-> liquidity_amount,
                         limit_a |-> token_max_a, limit_b |-> token_max_b,
                         delta_a |-> r.delta_a, delta_b |-> r.delta_b,
                         from_owner_a |-> r.from_owner_a, from_owner_b |-> r.from_owner_b,
                         from_vault_a |-> r.from_vault_a, from_vault_b |-> r.from_vault_b]
    /\ ops' = ops + 1
    /\ UNCHANGED <<mints, now>>

\* decrease_liquidity on position i
DecreaseLiquidity(i, authorized, liquidity_amount, token_min_a, token_min_b) ==
    /\ LET p == positions[i].ai_dex_pool
       IN \E r \in {decrease_liquidity_handler(pools[p], positions[i], ticks[p], MintA(p),
                        MintB(p), authorized, liquidity_amount, token_min_a, token_min_b, now)} :
             /\ pools' = [pools EXCEPT ![p] = r.pool]
             /\ ticks' = [ticks EXCEPT ![p] = r.tks]
             /\ positions' = [positions EXCEPT ![i] = r.position]
             /\ last' = [op |-> "decrease_liquidity", err |-> r.err, pool |-> p,
                         position |-> i, authorized |-> authorized,
                         liquidity_amount |-> liquidity_amount,
                         limit_a |-> token_min_a, limit_b |-> token_min_b,
                         delta_a |-> r.delta_a, delta_b |-> r.delta_b,
                         from_owner_a |-> r.from_owner_a, from_owner_b |-> r.from_owner_b,
                         from_vault_a |-> r.from_vault_a, from_vault_b |-> r.from_vault_b]
    /\ ops' = ops + 1
    /\ UNCHANGED <<mints, now>>

\* update_fees_and_rewards on position i
UpdateFeesAndRewards(i) ==
    /\ LET p == positions[i].ai_dex_pool
       IN \E r \in {update_fees_and_rewards_handler(pools[p], positions[i], ticks[p], now)} :
             /\ pools' = [pools EXCEPT ![p] = r.pool]
             /\ positions' = [positions EXCEPT ![i] = r.position]
             /\ last' = [op |-> "update_fees_and_rewards", err |-> r.err, pool |-> p,
                         position |-> i]
    /\ ops' = ops + 1
    /\ UNCHANGED <<ticks, mints, now>>

\* set_reward_emissions on pool p
SetRewardEmissions(p, signer, reward_index, emissions_per_second_x64, vault_amount) ==
    /\ \E r \in {set_reward_emissions_handler(pools[p], signer, reward_index,
                     emissions_per_second_x64, vault_amount, now)} :
          /\ pools' = [pools EXCEPT ![p] = r.pool]
          /\ last' = [op |-> "set_reward_emissions", err |-> r.err, pool |-> p,
                      signer |-> signer, reward_index |-> reward_index,
                      emissions_per_second_x64 |-> emissions_per_second_x64,
                      vault_amount |-> vault_amount]
    /\ ops' = ops + 1
    /\ UNCHANGED <<ticks, positions, mints, now>>

\* initialize_reward on the initialized pool p
InitializeReward(p, signer, reward_index, reward_mint, reward_token_wrapper) ==
    /\ pools[p] # DefaultPool
    /\ \E r \in {initialize_reward_handler(pools[p], signer, reward_index, reward_mint,
                     mints[reward_mint], reward_token_wrapper, 40 + reward_index)} :
          /\ pools' = [pools EXCEPT ![p] = r.pool]
          /\ last' = [op |-> "initialize_reward", err |-> r.err, pool |-> p,
                      signer |-> signer, reward_index |-> reward_index,
                      reward_mint |-> reward_mint,
                      reward_token_wrapper |-> reward_token_wrapper]
    /\ ops' = ops + 1
    /\ UNCHANGED <<ticks, positions, mints, now>>

\* set_reward_authority on pool p
SetRewardAuthority(p, signer, reward_index, new_reward_authority) ==
    /\ \E r \in {set_reward_authority_handler(pools[p], signer, reward_index,
                     new_reward_authority)} :
          /\ pools' = [pools EXCEPT ![p] = r.pool]
          /\ last' = [op |-> "set_reward_authority", err |-> r.err, pool |-> p,
                      signer |-> signer, reward_index |-> reward_index,
                      new_reward_authority |-> new_reward_authority]
    /\ ops' = ops + 1
    /\ UNCHANGED <<ticks, positions, mints, now>>

\* collect_protocol_fees on pool p
CollectProtocolFees(p, signer, ai_dex_config) ==
    /\ \E r \in {collect_protocol_fees_handler(pools[p], signer, ai_dex_config)} :
          /\ pools' = [pools EXCEPT ![p] = r.pool]
          /\ last' = [op |-> "collect_protocol_fees", err |-> r.err, pool |-> p,
                      signer |-> signer, ai_dex_config |-> ai_dex_config.key,
                      from_vault_a |-> r.from_vault_a, from_vault_b |-> r.from_vault_b]
    /\ ops' = ops + 1
    /\ UNCHANGED <<ticks, positions, mints, now>>

\* initialize_pool creating the pool account p from the fee tier's
\* default_fee_rate and the config's default_protocol_fee_rate; a failed
\* instruction leaves no account behind
InitializePool(p, token_mint_a, token_mint_b, token_wrapper_a, token_wrapper_b, sqrt_price, default_fee_rate, default_protocol_fee_rate) ==
    /\ pools[p] = DefaultPool
    /\ \E r \in {initialize_pool_handler(DefaultPool,
                            [Config EXCEPT !.default_protocol_fee_rate =
                                               default_protocol_fee_rate],
                            1, sqrt_price, default_fee_rate,
                            token_mint_a, mints[token_mint_a], token_wrapper_a,
                            PoolVaultA(p),
                            token_mint_b, mints[token_mint_b], token_wrapper_b,
                            PoolVaultB(p))} :
          /\ pools' = [pools EXCEPT ![p] = IF r.err = "Ok" THEN r.pool ELSE DefaultPool]
          /\ last' = [op |-> "initialize_pool", err |-> r.err, pool |-> p,
                      token_mint_a |-> token_mint_a, token_mint_b |-> token_mint_b,
                      token_wrapper_a |-> token_wrapper_a,
                      token_wrapper_b |-> token_wrapper_b,
                      sqrt_price |-> sqrt_price,
                      fee_rate |-> default_fee_rate,
                      protocol_fee_rate |-> default_protocol_fee_rate,
                      ai_dex |-> r.pool]
    /\ ops' = ops + 1
    /\ UNCHANGED <<ticks, positions, mints, now>>

\* set_fee_rate on the initialized pool p
SetFeeRate(p, fee_rate) ==
    /\ pools[p] # DefaultPool
    /\ \E r \in {set_fee_rate_handler(pools[p], fee_rate)} :
          /\ pools' = [pools EXCEPT ![p] = r.pool]
          /\ last' = [op |-> "set_fee_rate", err |-> r.err, pool |-> p,
                      fee_rate |-> fee_rate]
    /\ ops' = ops + 1
    /\ UNCHANGED <<ticks, positions, mints, now>>

\* set_protocol_fee_rate on the initialized pool p
SetProtocolFeeRate(p, protocol_fee_rate) ==
    /\ pools[p] # DefaultPool
    /\ \E r \in {set_protocol_fee_rate_handler(pools[p], protocol_fee_rate)} :
          /\ pools' = [pools EXCEPT ![p] = r.pool]
          /\ last' = [op |-> "set_protocol_fee_rate", err |-> r.err, pool |-> p,
                      protocol_fee_rate |-> protocol_fee_rate]
    /\ ops' = ops + 1
    /\ UNCHANGED <<ticks, positions, mints, now>>

\* calculate_transfer_fee_included_amount applied to mint m and an excluded
\* amount, as the liquidity and swap handlers apply it
CalculateTransferFeeIncludedAmount(m, transfer_fee_excluded_amount) ==
    /\ \E r \in {calculate_transfer_fee_included_amount(mints[m],
                                                         transfer_fee_excluded_amount)} :
          last' = [op |-> "calculate_transfer_fee_included_amount", err |-> r.err,
                   mint |-> m, excluded |-> transfer_fee_excluded_amount,
                   amount |-> r.amount, transfer_fee |-> r.transfer_fee]
    /\ ops' = ops + 1
    /\ UNCHANGED <<pools, ticks, positions, mints, now>>

\* the ledger clock advances
Tick ==
    /\ now < MaxTime
    /\ now' = now + 1
    /\ UNCHANGED <<pools, ticks, positions, mints, ops, last>>

\* ------------------------------------------------------------------------
\* Specifications
\* ------------------------------------------------------------------------
InitPrices == {256, 300}
\* the sqrt_price_limit that leaves a swap unlimited
NoLimit(a_to_b) == IF a_to_b THEN MIN_SQRT_PRICE_X64 ELSE MAX_SQRT_PRICE_X64

\* both pools created, positions opened and funded, at time 0
InitFunded ==
    \E mint_cfg \in MintConfigs, price_one \in InitPrices :
      \E st \in {Funded(mint_cfg, price_one, 256)} :
           /\ pools = st.pools
           /\ ticks = st.ticks
           /\ positions = st.positions
           /\ mints = st.mints
           /\ now = 0
           /\ ops = 0
           /\ last = NoOp

SwapAmounts == {0, 1, 30, 200}
SwapThresholds == {0, 24, 33, 1000}
SwapLimits == {MIN_SQRT_PRICE_X64, 200, MAX_SQRT_PRICE_X64}

\* swaps on pool 1
NextSwap ==
    /\ ops < MaxSwaps
    /\ \E amount \in SwapAmounts, thr \in SwapThresholds, lim \in SwapLimits,
          is_input \in BOOLEAN, a_to_b \in BOOLEAN :
            Swap(1, amount, thr, lim, is_input, a_to_b)

SpecSwap == InitFunded /\ [][NextSwap]_vars

\* two funded pools sharing mint 2, each at one of the initial prices
InitTwoHop ==
    \E mint_cfg \in MintConfigs, price_one \in InitPrices, price_two \in InitPrices :
      \E st \in {Funded(mint_cfg, price_one, price_two)} :
           /\ pools = st.pools
           /\ ticks = st.ticks
           /\ positions = st.positions
           /\ mints = st.mints
           /\ now = 0
           /\ ops = 0
           /\ last = NoOp

\* the routes tried: 1 -> 2 and 2 -> 1 through mint 2, the same pool twice,
\* and a second hop that does not take the first hop's output
Routes == {<<1, 2, TRUE, TRUE>>, <<2, 1, FALSE, FALSE>>,
           <<1, 1, TRUE, FALSE>>, <<1, 2, TRUE, FALSE>>}
HopAmounts == {30, 60}
HopThresholds == {0, 20, 33, 1000}
HopTwoLimits(a_to_b) == {NoLimit(a_to_b), IF a_to_b THEN 240 ELSE 280}

NextTwoHop ==
    /\ ops < MaxHops
    /\ \E route \in Routes, amount \in HopAmounts, thr \in HopThresholds,
          is_input \in BOOLEAN :
          \E lim_two \in HopTwoLimits(route[4]) :
            TwoHopSwap(route[1], route[2], amount, thr, is_input, route[3], route[4],
                       NoLimit(route[3]), lim_two)

SpecTwoHop == InitTwoHop /\ [][NextTwoHop]_vars

\* the pools at two stages of their life: just initialized with the
\* positions opened, and funded with a reward emitting on pool 1
Stages == {"fresh", "rewarded"}

Init ==
    \E mint_cfg \in {NoFees, FeeOnTwo}, price_one \in InitPrices, stage \in Stages :
      \E st \in {IF stage = "fresh"
                  THEN Fresh(mint_cfg, price_one, 256)
                  ELSE Rewarded(Funded(mint_cfg, price_one, 256))} :
           /\ pools = st.pools
           /\ ticks = st.ticks
           /\ positions = st.positions
           /\ mints = st.mints
           /\ now = 0
           /\ ops = 0
           /\ last = NoOp

\* the swaps tried: amount, amount_specified_is_input, and whether the price
\* is limited to the price of tick 0
Orders == {<<30, TRUE, FALSE>>, <<200, TRUE, TRUE>>, <<30, FALSE, FALSE>>}
\* a threshold that never refuses
LooseThreshold(is_input) == IF is_input THEN 0 ELSE 100000
Limit(limited, a_to_b) == IF limited THEN sqrt_price_from_tick_index(0) ELSE NoLimit(a_to_b)

Next ==
    \/ /\ ops < MaxOps
       /\ \E order \in Orders, a_to_b \in BOOLEAN :
             Swap(1, order[1], LooseThreshold(order[2]), Limit(order[3], a_to_b),
                  order[2], a_to_b)
    \/ /\ ops < MaxOps
       /\ \E route \in {<<1, 2, TRUE, TRUE>>, <<2, 1, FALSE, FALSE>>} :
             TwoHopSwap(route[1], route[2], 30, LooseThreshold(route[3]), route[3],
                        route[3], route[4], NoLimit(route[3]), NoLimit(route[4]))
    \/ /\ ops < MaxOps
       /\ \E i \in PositionIds : IncreaseLiquidity(i, TRUE, LiqUnit, 100000, 100000)
    \/ /\ ops < MaxOps
       /\ \E i \in PositionIds : DecreaseLiquidity(i, TRUE, LiqUnit, 0, 0)
    \/ /\ ops < MaxOps
       /\ \E i \in {1, 3} : UpdateFeesAndRewards(i)
    \/ /\ ops < MaxOps
       /\ SetRewardEmissions(1, ConfigAuthority, 0, Emission, VaultBalance)
    \/ /\ ops < MaxOps
       /\ InitializeReward(1, ConfigAuthority, 0, 3, NoTokenWrapper)
    \/ /\ ops < MaxOps
       /\ SetRewardAuthority(1, ConfigAuthority, 0, OtherAuthority)
    \/ /\ ops < MaxOps
       /\ CollectProtocolFees(1, ConfigAuthority, Config)
    \/ Tick

Spec == Init /\ [][Next]_vars

\* The reward and fee administration of pool 1: every signer, every reward
\* index up to the first one out of range, a vault balance on either side of
\* one day of emissions
Signers == {ConfigAuthority, OtherAuthority}

\* protocol fees pool 1 accrued in earlier swaps and has not paid out: none,
\* or one short of the width of the accumulator
OwedBefore == {0, U64_LIMIT - 1}

\* both pools created, positions opened and funded, protocol fees accrued
InitProtocolFees ==
    \E price_one \in InitPrices, owed_a \in OwedBefore, owed_b \in OwedBefore :
      \E st \in {Funded(NoFees, price_one, 256)} :
           /\ pools = [st.pools EXCEPT ![1].protocol_fee_owed_a = owed_a,
                                       ![1].protocol_fee_owed_b = owed_b]
           /\ ticks = st.ticks
           /\ positions = st.positions
           /\ mints = st.mints
           /\ now = 0
           /\ ops = 0
           /\ last = NoOp

\* swaps on pool 1 and the collection of its protocol fees
NextProtocolFees ==
    \/ /\ ops < MaxSwaps
       /\ \E amount \in {30, 200}, is_input \in BOOLEAN, a_to_b \in BOOLEAN :
             Swap(1, amount, LooseThreshold(is_input), NoLimit(a_to_b), is_input, a_to_b)
    \/ /\ ops < MaxSwaps
       /\ \E signer \in Signers : CollectProtocolFees(1, signer, Config)

SpecProtocolFees == InitProtocolFees /\ [][NextProtocolFees]_vars

\* state st after the first k reward slots of pool 1 were initialized, the
\* first of them emitting
WithRewards(st, k) ==
    IF k = 0 THEN st
    ELSE IF k = 1 THEN Rewarded(st)
    ELSE LET second(s) ==
                 [s EXCEPT !.pools[1] =
                     initialize_reward_handler(s.pools[1], ConfigAuthority, 1, 3,
                                               s.mints[3], NoTokenWrapper, 41).pool]
         IN second(Rewarded(st))

\* state st after a swap of 200 of token B into pool 1
Traded(st) ==
    LET stored(r) == [st EXCEPT !.pools[1] = r.pool, !.ticks[1] = r.tks]
    IN stored(swap_handler(st.pools[1], st.ticks[1], st.mints[st.pools[1].token_mint_a],
                           st.mints[st.pools[1].token_mint_b], 200, 0, NoLimit(FALSE),
                           TRUE, FALSE, 0))

RewardStages == {"fresh", "funded", "traded"}

InitRewards ==
    \E stage \in RewardStages, k \in 0..2 :
      \E st \in {WithRewards(IF stage = "fresh" THEN Fresh(NoFees, 256, 256)
                             ELSE IF stage = "funded" THEN Funded(NoFees, 256, 256)
                             ELSE Traded(Funded(NoFees, 256, 256)), k)} :
           /\ pools = st.pools
           /\ ticks = st.ticks
           /\ positions = st.positions
           /\ mints = st.mints
           /\ now = 0
           /\ ops = 0
           /\ last = NoOp

NextRewards ==
    \/ /\ ops < MaxOps
       /\ \E signer \in Signers, reward_index \in 0..NUM_REWARDS :
             InitializeReward(1, signer, reward_index, 2, NoTokenWrapper)
    \/ /\ ops < MaxOps
       /\ \E signer \in Signers, reward_index \in 0..1,
             emissions_per_second_x64 \in {Emission, HugeEmission},
             vault_amount \in {VaultBalance - 1, VaultBalance} :
             SetRewardEmissions(1, signer, reward_index, emissions_per_second_x64,
                                vault_amount)
    \/ /\ ops < MaxOps
       /\ \E signer \in Signers, reward_index \in 0..1, new_reward_authority \in Signers :
             SetRewardAuthority(1, signer, reward_index, new_reward_authority)
    \/ /\ ops < MaxOps
       /\ \E signer \in Signers, ai_dex_config \in {Config, OtherConfig} :
             CollectProtocolFees(1, signer, ai_dex_config)
    \/ /\ ops < MaxOps
       /\ \E a_to_b \in BOOLEAN : Swap(1, 200, 0, NoLimit(a_to_b), TRUE, a_to_b)
    \/ /\ ops < MaxOps
       /\ IncreaseLiquidity(1, TRUE, LiqUnit, 100000, 100000)
    \/ /\ ops < MaxOps
       /\ DecreaseLiquidity(1, TRUE, LiqUnit, 0, 0)
    \/ /\ ops < MaxOps
       /\ UpdateFeesAndRewards(1)
    \/ Tick

SpecRewards == InitRewards /\ [][NextRewards]_vars

\* The fee rates of a pool: pool accounts not yet created, then created and
\* administered with rates on either side of the caps, or created with mints
\* in either order and prices on either side of the price bounds
FeeRates == {0, 3000, MAX_FEE_RATE, MAX_FEE_RATE + 1}
ProtocolFeeRates == {0, MAX_PROTOCOL_FEE_RATE, MAX_PROTOCOL_FEE_RATE + 1}

InitFees ==
    /\ pools = [p \in PoolIds |-> DefaultPool]
    /\ ticks = [p \in PoolIds |-> EmptyTicks]
    /\ positions = [i \in PositionIds |-> OpenedPosition(DefaultPubkey, 0, 0)]
    /\ mints = NoFees
    /\ now = 0
    /\ ops = 0
    /\ last = NoOp

NextFees ==
    \/ /\ ops < MaxOps
       /\ \E p \in PoolIds, default_fee_rate \in FeeRates,
             default_protocol_fee_rate \in ProtocolFeeRates :
             InitializePool(p, PoolMintA(p), PoolMintB(p), NoTokenWrapper, NoTokenWrapper,
                            256, default_fee_rate, default_protocol_fee_rate)
    \/ /\ ops < MaxOps
       /\ \E p \in PoolIds, token_mint_a \in MintIds, token_mint_b \in MintIds,
             sqrt_price \in {MIN_SQRT_PRICE_X64 - 1, MIN_SQRT_PRICE_X64, 256,
                             MAX_SQRT_PRICE_X64, MAX_SQRT_PRICE_X64 + 1} :
             InitializePool(p, token_mint_a, token_mint_b, NoTokenWrapper, NoTokenWrapper,
                            sqrt_price, 3000, MAX_PROTOCOL_FEE_RATE)
    \/ /\ ops < MaxOps
       /\ \E p \in PoolIds, fee_rate \in FeeRates : SetFeeRate(p, fee_rate)
    \/ /\ ops < MaxOps
       /\ \E p \in PoolIds, protocol_fee_rate \in ProtocolFeeRates :
             SetProtocolFeeRate(p, protocol_fee_rate)

SpecFees == InitFees /\ [][NextFees]_vars

\* Liquidity changes under token limits: positions 1 (pool 1) and 3 (pool 2)
\* deposit and withdraw one LiqUnit with limits on either side of the amounts
\* the change costs or pays, with and without transfer fees, or ask for a
\* change of zero liquidity, with or without the position's authority
TokenMaxima == {<<75, 75>>, <<75, 80>>, <<75, 79>>, <<74, 80>>, <<80, 75>>, <<79, 75>>,
                <<80, 74>>, <<75, 84>>, <<75, 83>>}
TokenMinima == {<<0, 0>>, <<74, 75>>, <<74, 70>>, <<74, 71>>, <<75, 70>>, <<69, 75>>,
                <<70, 75>>, <<69, 76>>, <<74, 67>>, <<74, 68>>}
\* mint 2 charging 10% with a cap out of reach
FeeOnTwoUncapped == [NoFees EXCEPT ![2] = TransferFee(1000, 100)]

InitLiquidity ==
    \E mint_cfg \in MintConfigs \cup {FeeOnTwoUncapped}, stage \in Stages :
      \E st \in {IF stage = "fresh"
                  THEN Fresh(mint_cfg, 256, 256)
                  ELSE Rewarded(Funded(mint_cfg, 256, 256))} :
           /\ pools = st.pools
           /\ ticks = st.ticks
           /\ positions = st.positions
           /\ mints = st.mints
           /\ now = 0
           /\ ops = 0
           /\ last = NoOp

NextLiquidity ==
    \/ /\ ops < MaxOps
       /\ \E i \in {1, 3}, token_max \in TokenMaxima :
             IncreaseLiquidity(i, TRUE, LiqUnit, token_max[1], token_max[2])
    \/ /\ ops < MaxOps
       /\ \E i \in {1, 3}, token_min \in TokenMinima :
             DecreaseLiquidity(i, TRUE, LiqUnit, token_min[1], token_min[2])
    \/ /\ ops < MaxOps
       /\ \E i \in {1, 3}, authorized \in BOOLEAN : IncreaseLiquidity(i, authorized, 0, 0, 0)
    \/ /\ ops < MaxOps
       /\ \E i \in {1, 3}, authorized \in BOOLEAN : DecreaseLiquidity(i, authorized, 0, 0, 0)
    \/ Tick

SpecLiquidity == InitLiquidity /\ [][NextLiquidity]_vars

\* The transfer-fee adapter on its own: mint 1 carries a transfer-fee
\* extension with rates from 0 to 100% and caps that bite or stay out of reach
InitTransferFee ==
    \E bps \in {0, 1, 100, 1000, 2500, 5000, 9000, 9999, MAX_FEE_BASIS_POINTS},
       maximum_fee \in {0, 1, 2, 5, 50} :
        /\ pools = [p \in PoolIds |-> DefaultPool]
        /\ ticks = [p \in PoolIds |-> EmptyTicks]
        /\ positions = [i \in PositionIds |-> OpenedPosition(DefaultPubkey, 0, 0)]
        /\ mints = [NoFees EXCEPT ![1] = TransferFee(bps, maximum_fee)]
        /\ now = 0
        /\ ops = 0
        /\ last = NoOp

NextTransferFee ==
    /\ ops < MaxOps
    /\ \E m \in {1, 2}, transfer_fee_excluded_amount \in 0..MaxExcluded :
          CalculateTransferFeeIncludedAmount(m, transfer_fee_excluded_amount)

SpecTransferFee == InitTransferFee /\ [][NextTransferFee]_vars

\* Pools and rewards on mints of every kind: mints 1 and 2 are the mints of
\* pool 1 and the reward mints; each is a Token mint or a Token-2022 mint
\* (native, plain, with a freeze authority, or with extensions), and the
\* token wrapper of (config, mint) is created or not
MintAccounts ==
    {NoTransferFee,
     [Token2022Mint(FALSE, {}, "Initialized") EXCEPT !.is_native = TRUE],
     Token2022Mint(FALSE, {}, "Initialized"),
     Token2022Mint(TRUE, {}, "Initialized"),
     Token2022Mint(FALSE, {"TransferFeeConfig", "TokenMetadata", "MetadataPointer"},
                   "Initialized"),
     Token2022Mint(FALSE, {"ConfidentialTransferMint"}, "Initialized"),
     Token2022Mint(FALSE, {"TransferFeeConfig", "ConfidentialTransferMint",
                           "ConfidentialTransferFeeConfig"}, "Initialized"),
     Token2022Mint(FALSE, {"PermanentDelegate"}, "Initialized"),
     Token2022Mint(FALSE, {"TransferHook"}, "Initialized"),
     Token2022Mint(FALSE, {"MintCloseAuthority"}, "Initialized"),
     Token2022Mint(FALSE, {"DefaultAccountState"}, "Initialized"),
     Token2022Mint(FALSE, {"DefaultAccountState"}, "Frozen"),
     Token2022Mint(FALSE, {"NonTransferable"}, "Initialized"),
     Token2022Mint(FALSE, {"NonTransferable", "ConfidentialTransferMint"}, "Initialized"),
     Token2022Mint(FALSE, {"InterestBearingConfig"}, "Initialized")}

InitMints ==
    \E token_mint_a \in MintAccounts, token_mint_b \in MintAccounts :
        /\ pools = [p \in PoolIds |-> DefaultPool]
        /\ ticks = [p \in PoolIds |-> EmptyTicks]
        /\ positions = [i \in PositionIds |-> OpenedPosition(DefaultPubkey, 0, 0)]
        /\ mints = [NoFees EXCEPT ![1] = token_mint_a, ![2] = token_mint_b]
        /\ now = 0
        /\ ops = 0
        /\ last = NoOp

NextMints ==
    \/ /\ ops < MaxOps
       /\ \E token_wrapper_a \in {NoTokenWrapper, TokenWrapper_initialize(Config.key, 1)},
             token_wrapper_b \in {NoTokenWrapper, TokenWrapper_initialize(Config.key, 2)} :
             InitializePool(1, 1, 2, token_wrapper_a, token_wrapper_b,
                            256, 3000, MAX_PROTOCOL_FEE_RATE)
    \/ /\ ops < MaxOps
       /\ \E signer \in Signers, reward_mint \in {1, 2}, wrapped \in BOOLEAN :
             InitializeReward(1, signer, 0, reward_mint,
                              IF wrapped
                              THEN TokenWrapper_initialize(Config.key, reward_mint)
                              ELSE NoTokenWrapper)

SpecMints == InitMints /\ [][NextMints]_vars

\* ------------------------------------------------------------------------
\* Properties of the swap instruction
\* ------------------------------------------------------------------------
LastSwapComputed == last.op = "swap" /\ last.calc_err = "Ok"
LastSwapInputMint == IF last.a_to_b THEN MintA(last.pool) ELSE MintB(last.pool)
LastSwapOutputMint == IF last.a_to_b THEN MintB(last.pool) ELSE MintA(last.pool)
LastSwapInputSide == IF last.a_to_b THEN last.amount_a ELSE last.amount_b
LastSwapOutputSide == IF last.a_to_b THEN last.amount_b ELSE last.amount_a
LastSwapKernelInput == IF last.a_to_b THEN last.kernel_a ELSE last.kernel_b
LastSwapKernelOutput == IF last.a_to_b THEN last.kernel_b ELSE last.kernel_a

\* C1: whenever swap_with_transfer_fee_extension succeeds, in exact-in and in
\* exact-out mode, the input side it returns is a fee-included amount whose
\* fee-excluded part is the input the kernel consumed, and the output side it
\* returns is the output the kernel computed
C1_ReturnedSides ==
    LastSwapComputed =>
        /\ calculate_transfer_fee_excluded_amount(LastSwapInputMint,
               LastSwapInputSide).amount = LastSwapKernelInput
        /\ LastSwapOutputSide = LastSwapKernelOutput

\* an exact-out swap was computed whose kernel input differs from its output
C1_ExactOutComputed ==
    /\ LastSwapComputed
    /\ ~last.amount_specified_is_input
    /\ LastSwapKernelInput # LastSwapKernelOutput

\* C2: an exact-out swap whose amounts were computed fails with
\* AmountInAboveMaximumError exactly when the fee-included amount the user
\* has to pay for the input the kernel consumes exceeds other_amount_threshold
C2_ExactOutSlippage ==
    (LastSwapComputed /\ ~last.amount_specified_is_input) =>
        (last.err = "AmountInAboveMaximumError"
            <=> calculate_transfer_fee_included_amount(LastSwapInputMint,
                    LastSwapKernelInput).amount > last.other_amount_threshold)

\* an exact-out swap went through although the kernel's input is above the
\* threshold
C2_ExactOutAccepted ==
    /\ LastSwapComputed
    /\ ~last.amount_specified_is_input
    /\ last.err = "Ok"
    /\ LastSwapKernelInput > last.other_amount_threshold

\* C3 (state part): an exact-in swap whose amounts were computed fails with
\* AmountOutBelowMinimumError exactly when the output less the output mint's
\* transfer fee is below other_amount_threshold, and no other swap fails so
C3_ExactInSlippageIff ==
    /\ (LastSwapComputed /\ last.amount_specified_is_input) =>
           (last.err = "AmountOutBelowMinimumError"
               <=> calculate_transfer_fee_excluded_amount(LastSwapOutputMint,
                       LastSwapOutputSide).amount < last.other_amount_threshold)
    /\ (last.op = "swap" /\ last.err = "AmountOutBelowMinimumError") =>
           (LastSwapComputed /\ last.amount_specified_is_input)

\* C3 (step part): a swap that fails with AmountOutBelowMinimumError leaves
\* the pools and the ticks as they were and moves no token
C3_FailureChangesNothing ==
    (last'.op = "swap" /\ last'.err = "AmountOutBelowMinimumError") =>
        /\ pools' = pools
        /\ ticks' = ticks
        /\ positions' = positions
        /\ last'.from_owner = 0
        /\ last'.from_vault = 0

\* C3: an exact-in swap fails with AmountOutBelowMinimumError exactly when
\* the output after the output mint's transfer fee is below
\* other_amount_threshold, and then nothing is updated or transferred
C3_ExactInSlippage == [](C3_ExactInSlippageIff) /\ [][C3_FailureChangesNothing]_vars

\* an exact-in swap was refused although its output before the transfer fee
\* reaches the threshold
C3_RefusedByFee ==
    /\ LastSwapComputed
    /\ last.amount_specified_is_input
    /\ last.err = "AmountOutBelowMinimumError"
    /\ LastSwapOutputSide >= last.other_amount_threshold
    /\ LastSwapOutputSide > 0

\* ------------------------------------------------------------------------
\* Properties of the two_hop_swap instruction
\* ------------------------------------------------------------------------
\* both swaps of the last two_hop_swap were computed
LastHopComputed ==
    last.op = "two_hop_swap" /\ last.stage \in {"match", "slippage", "done"}
HopOneInputSide == IF last.a_to_b_one THEN last.one_amount_a ELSE last.one_amount_b
HopOneOutputSide == IF last.a_to_b_one THEN last.one_amount_b ELSE last.one_amount_a
HopOneKernelOutput == IF last.a_to_b_one THEN last.one_kernel_b ELSE last.one_kernel_a
HopTwoInputSide == IF last.a_to_b_two THEN last.two_amount_a ELSE last.two_amount_b
HopTwoOutputSide == IF last.a_to_b_two THEN last.two_amount_b ELSE last.two_amount_a
HopTwoKernelInput == IF last.a_to_b_two THEN last.two_kernel_a ELSE last.two_kernel_b
HopTwoKernelOutput == IF last.a_to_b_two THEN last.two_kernel_b ELSE last.two_kernel_a
IntermediaryMint == mints[output_token_mint(pools[last.one], last.a_to_b_one)]
RouteOutputMint == mints[output_token_mint(pools[last.two], last.a_to_b_two)]

\* the last two_hop_swap failed without touching a pool or moving a token
HopFailureChangesNothing ==
    /\ pools' = pools
    /\ ticks' = ticks
    /\ positions' = positions
    /\ last'.from_owner = 0
    /\ last'.between_vaults = 0
    /\ last'.from_vault = 0

\* C5 (state part): a two_hop_swap that succeeds has hop one's output side
\* equal to hop two's input side, and one whose computed amounts differ
\* fails with AmountMismatchError
C5_MatchOrError ==
    /\ (last.op = "two_hop_swap" /\ last.err = "Ok") =>
           (LastHopComputed /\ HopOneOutputSide = HopTwoInputSide)
    /\ (LastHopComputed /\ HopOneOutputSide # HopTwoInputSide) =>
           last.err = "AmountMismatchError"

\* C5 (step part): a two_hop_swap that fails with AmountMismatchError
\* updates neither pool and moves no token
C5_MismatchChangesNothing ==
    (last'.op = "two_hop_swap" /\ last'.err = "AmountMismatchError") =>
        HopFailureChangesNothing

\* C5: a two_hop_swap succeeds only if hop one's output side equals hop
\* two's input side; otherwise it fails with AmountMismatchError and neither
\* pool is updated and no token moves
C5_AmountsMustMatch == [](C5_MatchOrError) /\ [][C5_MismatchChangesNothing]_vars

\* a two_hop_swap was refused because the intermediary amounts differ
C5_Mismatch ==
    /\ LastHopComputed
    /\ last.err = "AmountMismatchError"
    /\ HopOneOutputSide # HopTwoInputSide

\* C6: in an exact-out two_hop_swap hop two is asked for the final output
\* `amount`, the output asked of hop one is the input hop two's kernel
\* requires, carried once through the intermediary mint's transfer fee, and
\* when the intermediary has no transfer fee and both kernels fill what was
\* asked of them AmountMismatchError is not raised
C6_ExactOutChain ==
    (LastHopComputed /\ ~last.amount_specified_is_input) =>
        /\ last.two_kernel_amount = last.amount
        /\ last.second_amount =
               calculate_transfer_fee_excluded_amount(IntermediaryMint,
                   calculate_transfer_fee_included_amount(IntermediaryMint,
                       HopTwoKernelInput).amount).amount
        /\ (/\ ~IntermediaryMint.ext
            /\ HopTwoKernelOutput = last.two_kernel_amount
            /\ HopOneKernelOutput = last.one_kernel_amount)
               => last.err # "AmountMismatchError"

\* an exact-out two_hop_swap whose hop two needs an input other than the
\* output it gives
C6_ExactOutComputed ==
    /\ LastHopComputed
    /\ ~last.amount_specified_is_input
    /\ HopTwoKernelInput # HopTwoKernelOutput

\* C7: in an exact-in two_hop_swap hop two's specified input is hop one's
\* output, hop two's kernel is fed that amount less one application of the
\* intermediary mint's transfer fee, and when the kernel consumes all of it
\* AmountMismatchError is not raised
C7_ExactInChain ==
    (LastHopComputed /\ last.amount_specified_is_input) =>
        /\ last.second_amount = HopOneOutputSide
        /\ last.two_kernel_amount =
               calculate_transfer_fee_excluded_amount(IntermediaryMint,
                   HopOneOutputSide).amount
        /\ (HopTwoKernelInput = last.two_kernel_amount)
               => last.err # "AmountMismatchError"

\* an exact-in two_hop_swap went through with a transfer fee taken on the
\* intermediary and hop two consuming all it was fed
C7_ExactInThroughFee ==
    /\ LastHopComputed
    /\ last.amount_specified_is_input
    /\ last.err = "Ok"
    /\ last.two_kernel_amount < HopOneOutputSide
    /\ HopTwoKernelInput = last.two_kernel_amount

\* C8 (state part): once the intermediary amounts match, an exact-in
\* two_hop_swap fails with AmountOutBelowMinimumError iff hop two's output
\* less the output mint's transfer fee is below other_amount_threshold, and
\* an exact-out one fails with AmountInAboveMaximumError iff hop one's input
\* side is above other_amount_threshold
C8_EndsIff ==
    (LastHopComputed /\ HopOneOutputSide = HopTwoInputSide) =>
        /\ (last.err = "AmountOutBelowMinimumError"
               <=> (/\ last.amount_specified_is_input
                    /\ calculate_transfer_fee_excluded_amount(RouteOutputMint,
                           HopTwoOutputSide).amount < last.other_amount_threshold))
        /\ (last.err = "AmountInAboveMaximumError"
               <=> (/\ ~last.amount_specified_is_input
                    /\ HopOneInputSide > last.other_amount_threshold))

\* C8 (step part): a two_hop_swap refused for slippage updates neither pool
C8_SlippageChangesNothing ==
    (/\ last'.op = "two_hop_swap"
     /\ last'.err \in {"AmountOutBelowMinimumError", "AmountInAboveMaximumError"}) =>
        HopFailureChangesNothing

PriceTick(p) == tick_index_from_sqrt_price(pools[p].sqrt_price)

\* C4, as stated: in every reachable pool state tick_current_index equals
\* tick_index_from_sqrt_price(sqrt_price)
C4_TickIsIndexOfPrice ==
    \A p \in PoolIds : pools[p].tick_current_index = PriceTick(p)

\* C4, amended: tick_current_index equals tick_index_from_sqrt_price(sqrt_price),
\* except that it is one less while the pool sits exactly on the sqrt-price
\* of the tick an a_to_b swap ended on
C4_TickTracksPrice ==
    \A p \in PoolIds :
        \/ pools[p].tick_current_index = PriceTick(p)
        \/ /\ pools[p].tick_current_index = PriceTick(p) - 1
           /\ pools[p].sqrt_price = sqrt_price_from_tick_index(PriceTick(p))

\* an a_to_b swap has ended exactly on the price of an initialized tick
C4_CrossedDownward ==
    /\ last.op = "swap" /\ last.err = "Ok" /\ last.a_to_b
    /\ ticks[last.pool][PriceTick(last.pool)].initialized
    /\ pools[last.pool].sqrt_price = sqrt_price_from_tick_index(PriceTick(last.pool))
    /\ pools[last.pool].tick_current_index = PriceTick(last.pool) - 1

GrowthNeverDecreases ==
    \A p \in PoolIds :
        /\ pools'[p].fee_growth_global_a >= pools[p].fee_growth_global_a
        /\ pools'[p].fee_growth_global_b >= pools[p].fee_growth_global_b
        /\ \A i \in RewardIdx :
              pools'[p].reward_infos[i].growth_global_x64
                  >= pools[p].reward_infos[i].growth_global_x64

\* C9: no operation decreases fee_growth_global_a, fee_growth_global_b or
\* the growth_global_x64 of any reward slot of any pool
C9_GrowthMonotonic == [][GrowthNeverDecreases]_vars

\* a swap has raised a fee growth of a pool whose reward growth had risen
C9_GrowthRaised ==
    /\ last.op = "swap" /\ last.err = "Ok"
    /\ pools[last.pool].fee_growth_global_a + pools[last.pool].fee_growth_global_b > 0
    /\ pools[last.pool].reward_infos[0].growth_global_x64 > 0

\* the liquidity of the positions of pool p whose range holds tick_index
RECURSIVE ActiveLiquidity(_, _, _)
ActiveLiquidity(p, tick_index, ids) ==
    IF ids = {} THEN 0
    ELSE LET i == CHOOSE j \in ids : TRUE
         IN ActiveLiquidity(p, tick_index, ids \ {i})
            + (IF /\ positions[i].ai_dex_pool = p
                  /\ positions[i].tick_lower_index <= tick_index
                  /\ tick_index < positions[i].tick_upper_index
               THEN positions[i].liquidity ELSE 0)

\* C10: pool.liquidity is the sum of the liquidity of the positions with
\* tick_lower <= tick_current_index < tick_upper
C10_LiquidityIsActiveSum ==
    \A p \in PoolIds :
        pools[p].liquidity = ActiveLiquidity(p, pools[p].tick_current_index, PositionIds)

\* a swap has crossed a tick and left the pool with the liquidity of one of
\* its two funded positions
C10_CrossedIntoOneRange ==
    /\ last.op = "swap" /\ last.err = "Ok"
    /\ positions[1].liquidity > 0 /\ positions[2].liquidity > 0
    /\ pools[1].liquidity > 0
    /\ pools[1].liquidity < positions[1].liquidity + positions[2].liquidity

\* ------------------------------------------------------------------------
\* Conservation of swap fees
\* ------------------------------------------------------------------------
\* the fee of one token a position could collect now: the stored fee_owed
\* plus what its checkpoint has not yet absorbed
ClaimableFee(pool, tks, position, in_a) ==
    LET f(u) == IF in_a THEN u.position_update.fee_owed_a ELSE u.position_update.fee_owed_b
    IN f(calculate_modify_liquidity(pool, position, tks, 0,
                                    pool.reward_last_updated_timestamp))

RECURSIVE ClaimableFees(_, _, _, _, _, _)
ClaimableFees(pool, tks, poss, p, in_a, ids) ==
    IF ids = {} THEN 0
    ELSE LET i == CHOOSE j \in ids : TRUE
         IN (IF poss[i].ai_dex_pool = p THEN ClaimableFee(pool, tks, poss[i], in_a) ELSE 0)
            + ClaimableFees(pool, tks, poss, p, in_a, ids \ {i})

\* what the protocol and the positions of pool p can claim of one token
FeeClaims(pool, tks, poss, p, in_a) ==
    (IF in_a THEN pool.protocol_fee_owed_a ELSE pool.protocol_fee_owed_b)
        + ClaimableFees(pool, tks, poss, p, in_a, PositionIds)

\* the pool and input side of a successful swap recorded in a `last` record
SwapCharges(l, p, in_a) ==
    \/ l.op = "swap" /\ l.err = "Ok" /\ l.pool = p /\ l.a_to_b = in_a
    \/ l.op = "two_hop_swap" /\ l.err = "Ok" /\ l.one = p /\ l.a_to_b_one = in_a
    \/ l.op = "two_hop_swap" /\ l.err = "Ok" /\ l.two = p /\ l.a_to_b_two = in_a

\* the total fee that swap charged to the trader on pool p
FeeCharged(l, p) ==
    IF l.op = "swap" THEN l.total_fee
    ELSE IF l.one = p THEN l.one_total_fee ELSE l.two_total_fee

\* the fee of the steps that swap took while the active liquidity was zero
FeeWithoutLiquidity(l, p) ==
    IF l.op = "swap" THEN l.fee_without_liquidity
    ELSE IF l.one = p THEN l.one_fee_without_liquidity ELSE l.two_fee_without_liquidity

FeeClaimsGain(p, in_a) ==
    FeeClaims(pools'[p], ticks'[p], positions', p, in_a)
        - FeeClaims(pools[p], ticks[p], positions, p, in_a)

\* C11 as stated: a swap whose steps all had active liquidity adds to
\* protocol_fee_owed and to the fees claimable by positions exactly the total
\* fee it charged
SwapFeeFullyClaimable ==
    \A p \in PoolIds, in_a \in BOOLEAN :
        (ops' = ops + 1 /\ SwapCharges(last', p, in_a) /\ FeeWithoutLiquidity(last', p) = 0)
            => FeeClaimsGain(p, in_a) = FeeCharged(last', p)

C11_FeesFullyClaimable == [][SwapFeeFullyClaimable]_vars

\* a swap adds to the claims on its input token at most the fee it charged,
\* and no other step adds to the claims on any token
ClaimsWithinCharged ==
    \A p \in PoolIds, in_a \in BOOLEAN :
        FeeClaimsGain(p, in_a)
            <= (IF ops' = ops + 1 /\ SwapCharges(last', p, in_a)
                THEN FeeCharged(last', p) ELSE 0)

\* C11 (amended): the protocol fee a swap adds to protocol_fee_owed plus the
\* fees that become claimable by positions never exceed the total fee charged
\* to the trader (they fall short of it by the fee of zero-liquidity steps and
\* by what the fee-growth accumulators round down), and no step other than a
\* swap raises what the protocol and the positions can claim
C11_ClaimsNeverExceedCharged == [][ClaimsWithinCharged]_vars

\* a swap charged a fee, part went to the protocol and part is claimable by
\* positions
C11_FeeSplitBetweenProtocolAndPositions ==
    /\ last.op = "swap" /\ last.err = "Ok" /\ last.pool = 1
    /\ last.total_fee > last.protocol_fee /\ last.protocol_fee > 0
    /\ (IF last.a_to_b THEN pools[1].protocol_fee_owed_a ELSE pools[1].protocol_fee_owed_b)
           >= last.protocol_fee
    /\ ClaimableFees(pools[1], ticks[1], positions, 1, last.a_to_b, PositionIds) > 0

\* ------------------------------------------------------------------------
\* Properties of the reward slots
\* ------------------------------------------------------------------------
InitializedSlotsFormPrefix ==
    \A p \in PoolIds : \A i, j \in RewardIdx :
        (j < i /\ initialized(pools[p].reward_infos[i])) => initialized(pools[p].reward_infos[j])

InitializedSlotsKeepMintAndVault ==
    \A p \in PoolIds : \A i \in RewardIdx :
        initialized(pools[p].reward_infos[i])
            => /\ pools'[p].reward_infos[i].mint = pools[p].reward_infos[i].mint
               /\ pools'[p].reward_infos[i].vault = pools[p].reward_infos[i].vault

\* C12: the initialized reward slots of a pool form a prefix of the indices
\* 0..NUM_REWARDS-1, and no step (swap, liquidity change, set_reward_emissions,
\* set_reward_authority, update_fees_and_rewards, another initialize_reward)
\* changes the mint or the vault of an initialized slot
C12_RewardSlotsPrefixAndStable ==
    []InitializedSlotsFormPrefix /\ [][InitializedSlotsKeepMintAndVault]_vars

\* initialize_reward was refused on a slot that is already initialized, while
\* the slot after the initialized prefix is still free
C12_ReinitializationRefused ==
    /\ last.op = "initialize_reward" /\ last.err = "InvalidRewardIndexError"
    /\ last.signer = pools[1].reward_infos[last.reward_index].authority
    /\ last.reward_index = 0
    /\ initialized(pools[1].reward_infos[0])
    /\ initialized(pools[1].reward_infos[1])
    /\ ~initialized(pools[1].reward_infos[2])

\* ------------------------------------------------------------------------
\* Properties of set_reward_emissions
\* ------------------------------------------------------------------------
\* one day of emissions at the given rate, as a number
EmissionsPerDay(emissions_per_second_x64) == (emissions_per_second_x64 * DAY_IN_SECONDS) \div X64

\* the last instruction was a set_reward_emissions that passed its account
\* constraints: signed by the slot's authority, with the slot's vault
LastSetRewardEmissionsAdmitted ==
    /\ last.op = "set_reward_emissions"
    /\ last.err \notin {"ProgramFailedToComplete", "ConstraintAddress",
                        "AccountOwnedByWrongProgram"}

FailedSetRewardEmissionsChangesNothing ==
    (ops' = ops + 1 /\ last'.op = "set_reward_emissions" /\ last'.err # "Ok")
        => pools' = pools

RollsRewardsForward(l) ==
    /\ l.op \in {"set_reward_emissions", "update_fees_and_rewards", "increase_liquidity",
                 "decrease_liquidity", "swap"}
    /\ l.err = "Ok"

\* the growth of one slot over the time since the last update, per unit of
\* the liquidity the pool had before the instruction
RewardGrowthDelta(pool, i, timestamp) ==
    IF pool.liquidity > 0
    THEN ((timestamp - pool.reward_last_updated_timestamp)
              * pool.reward_infos[i].emissions_per_second_x64) \div pool.liquidity
    ELSE 0

RewardsRolledForwardToNow ==
    \A p \in PoolIds :
        (ops' = ops + 1 /\ RollsRewardsForward(last') /\ last'.pool = p)
            => /\ pools'[p].reward_last_updated_timestamp = now
               /\ \A i \in RewardIdx :
                    initialized(pools[p].reward_infos[i])
                        => pools'[p].reward_infos[i].growth_global_x64
                             = pools[p].reward_infos[i].growth_global_x64
                                 + RewardGrowthDelta(pools[p], i, now)

\* C14: a successful set_reward_emissions, update_fees_and_rewards, liquidity
\* change or swap at time now raises the growth_global_x64 of every
\* initialized slot by floor((now - reward_last_updated_timestamp) *
\* emissions_per_second_x64 / liquidity) when the pool's liquidity is above
\* zero, leaves it when the liquidity is zero, and sets
\* reward_last_updated_timestamp to now in both cases
C14_RewardsRolledForward == [][RewardsRolledForwardToNow]_vars

\* rewards were rolled forward over a second in which slot 0 was emitting to
\* liquidity above zero
C14_GrowthAccruedOverTime ==
    /\ RollsRewardsForward(last) /\ last.pool = 1
    /\ now > 0
    /\ pools[1].reward_last_updated_timestamp = now
    /\ pools[1].liquidity > 0
    /\ pools[1].reward_infos[0].growth_global_x64 > 0

\* ------------------------------------------------------------------------
\* Properties of collect_protocol_fees
\* ------------------------------------------------------------------------
LastCollected(l, p) == l.op = "collect_protocol_fees" /\ l.err = "Ok" /\ l.pool = p

CollectTransfersWhatIsOwed ==
    \A p \in PoolIds :
        (ops' = ops + 1 /\ LastCollected(last', p))
            => /\ last'.from_vault_a = pools[p].protocol_fee_owed_a
               /\ last'.from_vault_b = pools[p].protocol_fee_owed_b
               /\ pools'[p] = [pools[p] EXCEPT !.protocol_fee_owed_a = 0,
                                               !.protocol_fee_owed_b = 0]
               /\ LastCollected(last, p) => (last'.from_vault_a = 0 /\ last'.from_vault_b = 0)

\* C15: a successful collect_protocol_fees transfers exactly the
\* protocol_fee_owed_a and protocol_fee_owed_b the pool held before the call,
\* leaves both at 0 and every other pool field as it was, and a second
\* collect_protocol_fees right after it transfers 0 of both tokens
C15_CollectProtocolFeesFrame == [][CollectTransfersWhatIsOwed]_vars

\* protocol fees of token B were collected and a second collection found none
C15_CollectedThenNothingLeft ==
    /\ LastCollected(last, 1)
    /\ last.from_vault_a = 0 /\ last.from_vault_b = 0
    /\ ops = 2
    /\ pools[1].fee_growth_global_b > 0

\* ------------------------------------------------------------------------
\* Properties of the fee rates
\* ------------------------------------------------------------------------
RatesWithinCaps ==
    \A p \in PoolIds : /\ pools[p].fee_rate <= MAX_FEE_RATE
                       /\ pools[p].protocol_fee_rate <= MAX_PROTOCOL_FEE_RATE

ExceedingRateRefused ==
    ops' = ops + 1 =>
        /\ (last'.op \in {"set_fee_rate", "initialize_pool"} /\ last'.fee_rate > MAX_FEE_RATE)
              => (last'.err = "FeeRateExceededError" /\ pools' = pools)
        /\ (last'.op \in {"set_protocol_fee_rate", "initialize_pool"}
              /\ last'.protocol_fee_rate > MAX_PROTOCOL_FEE_RATE)
              => (last'.err \in {"FeeRateExceededError", "ProtocolFeeRateExceededError"}
                    /\ (last'.op = "set_protocol_fee_rate"
                           => last'.err = "ProtocolFeeRateExceededError")
                    /\ pools' = pools)

\* C16: fee_rate <= MAX_FEE_RATE and protocol_fee_rate <= MAX_PROTOCOL_FEE_RATE
\* in every reachable state; update_fee_rate with a larger value fails with
\* FeeRateExceededError and update_protocol_fee_rate with
\* ProtocolFeeRateExceededError, each leaving the stored rate as it was, and
\* pool initialization refuses larger default rates the same way
C16_FeeRatesCapped == []RatesWithinCaps /\ [][ExceedingRateRefused]_vars

\* a pool created at the fee-rate cap refused a rate one above the cap
C16_RateAboveCapRefused ==
    /\ last.op = "set_fee_rate" /\ last.err = "FeeRateExceededError"
    /\ last.fee_rate = MAX_FEE_RATE + 1
    /\ pools[last.pool].fee_rate = MAX_FEE_RATE
    /\ pools[last.pool].protocol_fee_rate = MAX_PROTOCOL_FEE_RATE

\* ------------------------------------------------------------------------
\* Authorities
\* ------------------------------------------------------------------------
RewardAdministration == {"initialize_reward", "set_reward_emissions", "set_reward_authority"}

\* the instruction counted by this step named a reward slot of pool p
ActsOnRewardSlot(l, p, i) == l.op \in RewardAdministration /\ l.pool = p /\ l.reward_index = i

OnlyAuthoritiesTakeEffect ==
    /\ \A p \in PoolIds, i \in RewardIdx :
          (ops' = ops + 1 /\ ActsOnRewardSlot(last', p, i))
              => /\ last'.signer # pools[p].reward_infos[i].authority
                      => (last'.err = "ConstraintAddress" /\ pools' = pools)
                 /\ (last'.op = "set_reward_authority" /\ last'.err = "Ok")
                      => pools'[p].reward_infos[i].authority = last'.new_reward_authority
                 /\ last'.op # "set_reward_authority"
                      => pools'[p].reward_infos[i].authority = pools[p].reward_infos[i].authority
    /\ \A p \in PoolIds :
          (ops' = ops + 1 /\ last'.op = "collect_protocol_fees" /\ last'.pool = p)
              => \/ /\ last'.err = "Ok"
                    /\ last'.ai_dex_config = pools[p].ai_dex_config
                    /\ last'.signer = Config.config_authority
                 \/ /\ last'.err # "Ok"
                    /\ pools' = pools
                    /\ last'.from_vault_a = 0 /\ last'.from_vault_b = 0

\* every slot's authority is the config authority until set_reward_authority
\* hands it over
AuthorityInitiallyConfigAuthority ==
    \A p \in PoolIds, i \in RewardIdx :
        pools[p].reward_infos[i].authority \in Signers
            /\ (ops = 0 => pools[p].reward_infos[i].authority = Config.config_authority)

\* C17: initialize_reward, set_reward_emissions and set_reward_authority on
\* slot i are refused, changing nothing, unless signed by the authority
\* recorded in reward_infos[i], which is the config authority until a
\* successful set_reward_authority(i, X) records X in its place; and
\* collect_protocol_fees succeeds only when signed by the config_authority of
\* the config the pool names
C17_OnlyAuthoritiesAct ==
    []AuthorityInitiallyConfigAuthority /\ [][OnlyAuthoritiesTakeEffect]_vars

\* the config authority handed slot 0 over and was then refused on it
C17_PreviousAuthorityRefused ==
    /\ last.op = "set_reward_emissions" /\ last.reward_index = 0
    /\ last.err = "ConstraintAddress"
    /\ last.signer = ConfigAuthority
    /\ initialized(pools[1].reward_infos[0])
    /\ pools[1].reward_infos[0].authority = OtherAuthority

\* ------------------------------------------------------------------------
\* Properties of the token limits of liquidity changes
\* ------------------------------------------------------------------------
RefusedByTokenLimit(l) ==
    \/ l.op = "increase_liquidity" /\ l.err = "TokenLimitExceededError"
    \/ l.op = "decrease_liquidity" /\ l.err = "TokenAmountBelowMinimumError"

LimitFailureChangesNothing ==
    (ops' = ops + 1 /\ RefusedByTokenLimit(last'))
        => (pools' = pools /\ positions' = positions /\ ticks' = ticks)

TokenDeltas(i, liquidity_delta) ==
    calculate_liquidity_token_deltas(pools[positions[i].ai_dex_pool].tick_current_index,
                                     pools[positions[i].ai_dex_pool].sqrt_price,
                                     positions[i], liquidity_delta)

\* what a vault receives of an amount sent to it
Received(mint_cfg, amount) == calculate_transfer_fee_excluded_amount(mint_cfg, amount).amount

IncreaseWithinMaxima(l, i, p) ==
    LET f(inc_a, inc_b, d) ==
            /\ l.err = "Ok" <=> (inc_a.amount <= l.limit_a /\ inc_b.amount <= l.limit_b)
            /\ l.err = "Ok"
                 => /\ l.from_owner_a = inc_a.amount /\ l.from_owner_b = inc_b.amount
                    /\ l.delta_a = d.delta_a /\ l.delta_b = d.delta_b
                    /\ Received(MintA(p), l.from_owner_a) >= d.delta_a
                    /\ Received(MintB(p), l.from_owner_b) >= d.delta_b
        g(d) == f(calculate_transfer_fee_included_amount(MintA(p), d.delta_a),
                  calculate_transfer_fee_included_amount(MintB(p), d.delta_b), d)
    IN g(TokenDeltas(i, l.liquidity_amount))

IncreaseRespectsMaxima ==
    \A i \in PositionIds :
        (/\ ops' = ops + 1
         /\ last'.op = "increase_liquidity" /\ last'.position = i
         /\ last'.err \in {"Ok", "TokenLimitExceededError"})
            => IncreaseWithinMaxima(last', i, positions[i].ai_dex_pool)

\* C19: increase_liquidity succeeds only if the transfer-fee-included amounts
\* of token A and token B are at most token_max_a and token_max_b, and fails
\* with TokenLimitExceededError otherwise; on success the owner pays exactly
\* the fee-included amounts, so that each vault receives at least delta_a and
\* delta_b
C19_IncreaseWithinTokenMax == [][IncreaseRespectsMaxima]_vars

\* a deposit into a pool whose token B charges a transfer fee went through
\* with token_max_b equal to the fee-included amount, 9 above delta_b
C19_AcceptedAtFeeIncludedMaximum ==
    /\ last.op = "increase_liquidity" /\ last.err = "Ok"
    /\ last.from_owner_b = last.limit_b
    /\ last.from_owner_b = last.delta_b + 9

DecreaseAboveMinima(l, i, p) ==
    LET f(exc_a, exc_b, d) ==
            /\ l.err = "Ok" <=> (exc_a.amount >= l.limit_a /\ exc_b.amount >= l.limit_b)
            /\ l.err = "Ok"
                 => /\ l.from_vault_a = d.delta_a /\ l.from_vault_b = d.delta_b
                    /\ l.delta_a = d.delta_a /\ l.delta_b = d.delta_b
        g(d) == f(calculate_transfer_fee_excluded_amount(MintA(p), d.delta_a),
                  calculate_transfer_fee_excluded_amount(MintB(p), d.delta_b), d)
    IN g(TokenDeltas(i, 0 - l.liquidity_amount))

DecreaseRespectsMinima ==
    \A i \in PositionIds :
        (/\ ops' = ops + 1
         /\ last'.op = "decrease_liquidity" /\ last'.position = i
         /\ last'.err \in {"Ok", "TokenAmountBelowMinimumError"})
            => DecreaseAboveMinima(last', i, positions[i].ai_dex_pool)

\* C20: decrease_liquidity succeeds only if what the owner receives of each
\* token after the mint's transfer fee is at least token_min_a and
\* token_min_b, and fails with TokenAmountBelowMinimumError otherwise; on
\* success each vault sends exactly delta_a and delta_b
C20_DecreaseAboveTokenMin == [][DecreaseRespectsMinima]_vars

\* a withdrawal was refused although the vault would have sent the minimum:
\* the transfer fee of token B left the owner less
C20_RefusedForTransferFee ==
    /\ last.op = "decrease_liquidity" /\ last.err = "TokenAmountBelowMinimumError"
    /\ last.pool = 1
    /\ last.limit_a <= 74 /\ last.limit_b = 68
    /\ mints[2].maximum_fee = 100
    /\ positions[1].liquidity = LiqUnit

\* ------------------------------------------------------------------------
\* Properties of calculate_transfer_fee_included_amount
\* ------------------------------------------------------------------------
\* the forward fee of the current epoch on an included amount y
ForwardFee(tf, y) ==
    Min(tf.maximum_fee, CeilDiv(y * tf.transfer_fee_basis_points, ONE_IN_BASIS_POINTS))

\* y delivers at least x after the forward fee
Delivers(tf, y, x) == y - ForwardFee(tf, y) >= x

LastIncludedAmount ==
    /\ last.op = "calculate_transfer_fee_included_amount"
    /\ mints[last.mint].ext

\* C21: for a mint with a transfer-fee extension and an excluded amount
\* x > 0 for which calculate_transfer_fee_included_amount succeeds, the
\* returned included amount is the smallest y with y - fee(y) >= x, where
\* fee(y) = min(maximum_fee, ceil(y * bps / 10000))
C21_IncludedAmountIsSmallest ==
    (LastIncludedAmount /\ last.excluded > 0 /\ last.err = "Ok") =>
        /\ Delivers(mints[last.mint], last.amount, last.excluded)
        /\ \A y \in 0..(last.amount - 1) :
              ~Delivers(mints[last.mint], y, last.excluded)

\* an inverse through a rounded fee below the cap: 9 tokens at 10% need 10
C21_InverseThroughRoundedFee ==
    /\ LastIncludedAmount
    /\ last.err = "Ok"
    /\ mints[last.mint] = TransferFee(1000, 5)
    /\ last.excluded = 9
    /\ last.amount = 10
    /\ last.transfer_fee = 1

\* C22: with a rate below 100% (and any excluded amount and cap of the fuzz
\* test's range) calculate_transfer_fee_included_amount returns Ok: neither
\* the overflow check nor the fee re-verification fires
C22_IncludedAmountNeverFails ==
    (/\ LastIncludedAmount
     /\ mints[last.mint].transfer_fee_basis_points < MAX_FEE_BASIS_POINTS) =>
        last.err = "Ok"

\* the cap biting on a rate just below 100%: the fee is the cap and is verified
C22_VerifiedAtTheCap ==
    /\ LastIncludedAmount
    /\ last.err = "Ok"
    /\ mints[last.mint] = TransferFee(9999, 50)
    /\ last.excluded = MaxExcluded
    /\ last.transfer_fee = 50
    /\ last.amount = MaxExcluded + 50

\* ------------------------------------------------------------------------
\* Properties of the supported mints
\* ------------------------------------------------------------------------
\* the mints the last initialize_pool or initialize_reward was given, each
\* with the token wrapper account passed for it
LastMints ==
    IF last.op = "initialize_pool"
    THEN {<<last.token_mint_a, last.token_wrapper_a>>,
          <<last.token_mint_b, last.token_wrapper_b>>}
    ELSE IF last.op = "initialize_reward"
    THEN {<<last.reward_mint, last.reward_token_wrapper>>}
    ELSE {}

\* a Token-2022 mint carrying one of the extensions
Carries(token_mint, extensions) ==
    /\ token_mint.owner = "Token2022"
    /\ token_mint.extensions \cap extensions # {}

\* is_supported_token_mint is false for the mint with or without a wrapper,
\* and the instruction given the mint failed
RejectedOutright(m) ==
    /\ ~is_supported_token_mint(mints[m], TRUE)
    /\ ~is_supported_token_mint(mints[m], FALSE)
    /\ last.err # "Ok"

\* C23 as stated: a Token-2022 mint with a confidential-transfer extension
\* or the NonTransferable extension is unsupported with or without a token
\* wrapper, so no pool or reward is created on it
C23_ConfidentialAndNonTransferableRejected ==
    \A mw \in LastMints :
        Carries(mints[mw[1]], {"ConfidentialTransferMint", "ConfidentialTransferFeeConfig",
                               "NonTransferable"}) =>
            RejectedOutright(mw[1])

\* C23 (amended): a Token-2022 mint with the NonTransferable extension is
\* unsupported with or without a token wrapper, so no pool or reward is
\* created on it; a mint whose only extensions are confidential-transfer
\* ones (next to a transfer fee) and that has no freeze authority is
\* supported without a wrapper
C23_NonTransferableRejected ==
    \A mw \in LastMints :
        /\ Carries(mints[mw[1]], {"NonTransferable"}) => RejectedOutright(mw[1])
        /\ (/\ Carries(mints[mw[1]], {"ConfidentialTransferMint",
                                       "ConfidentialTransferFeeConfig"})
            /\ mints[mw[1]].extensions \subseteq
                   {"ConfidentialTransferMint", "ConfidentialTransferFeeConfig",
                    "TransferFeeConfig"}
            /\ ~mints[mw[1]].freeze_authority) =>
               is_supported_token_mint(mints[mw[1]], FALSE)

\* a NonTransferable mint refused as a pool mint although its token wrapper
\* is initialized
C23_RefusedDespiteWrapper ==
    /\ last.op = "initialize_pool"
    /\ last.err = "UnsupportedTokenMintError"
    /\ "NonTransferable" \in mints[last.token_mint_a].extensions
    /\ last.token_wrapper_a = TokenWrapper_initialize(Config.key, last.token_mint_a)
    /\ mints[last.token_mint_b] = NoTransferFee

\* the token wrapper account is the initialized wrapper of (config, mint)
WrapperInitialized(mw) == mw[2] = TokenWrapper_initialize(Config.key, mw[1])

\* C24: a Token-2022 mint with a freeze authority or with PermanentDelegate,
\* TransferHook, MintCloseAuthority or DefaultAccountState is supported only
\* with an initialized token wrapper of (config, mint); a DefaultAccountState
\* whose state is not Initialized is rejected even then; initialize_pool and
\* initialize_reward, once past their account constraints, fail with
\* UnsupportedTokenMintError for an unsupported mint
C24_WrapperRequired ==
    /\ \A mw \in LastMints :
          /\ (\/ (mints[mw[1]].owner = "Token2022" /\ mints[mw[1]].freeze_authority)
              \/ Carries(mints[mw[1]], {"PermanentDelegate", "TransferHook",
                                        "MintCloseAuthority", "DefaultAccountState"})) =>
                 /\ ~is_supported_token_mint(mints[mw[1]], FALSE)
                 /\ last.err = "Ok" => WrapperInitialized(mw)
          /\ (/\ Carries(mints[mw[1]], {"DefaultAccountState"})
              /\ mints[mw[1]].default_state # "Initialized") =>
                 RejectedOutright(mw[1])
    /\ (/\ last.err # "ConstraintAddress"
        /\ \E mw \in LastMints :
              ~is_supported_token_mint(mints[mw[1]], WrapperInitialized(mw))) =>
          last.err = "UnsupportedTokenMintError"

\* a pool created on a mint with a freeze authority whose token wrapper is
\* initialized
C24_CreatedWithWrapper ==
    /\ last.op = "initialize_pool"
    /\ last.err = "Ok"
    /\ mints[last.token_mint_a].freeze_authority
    /\ WrapperInitialized(<<last.token_mint_a, last.token_wrapper_a>>)
    /\ pools[last.pool].token_mint_a = last.token_mint_a

\* ------------------------------------------------------------------------
\* Properties of AiDexPool::initialize
\* ------------------------------------------------------------------------
PriceInBounds(sqrt_price) ==
    sqrt_price >= MIN_SQRT_PRICE_X64 /\ sqrt_price <= MAX_SQRT_PRICE_X64

\* C25: initialize fails with InvalidTokenMintOrderError whenever
\* token_mint_a >= token_mint_b, and otherwise with SqrtPriceOutOfBoundsError
\* whenever sqrt_price is outside [MIN_SQRT_PRICE_X64, MAX_SQRT_PRICE_X64];
\* hence every created pool has token_mint_a < token_mint_b and an in-bounds
\* initial price
C25_MintOrderAndPriceBounds ==
    /\ last.op = "initialize_pool" =>
          /\ last.token_mint_a >= last.token_mint_b =>
                 last.err = "InvalidTokenMintOrderError"
          /\ (last.token_mint_a < last.token_mint_b /\ ~PriceInBounds(last.sqrt_price)) =>
                 last.err = "SqrtPriceOutOfBoundsError"
    /\ \A p \in PoolIds :
          pools[p] # DefaultPool =>
              /\ pools[p].token_mint_a < pools[p].token_mint_b
              /\ PriceInBounds(pools[p].sqrt_price)

\* next to a created pool, the same mint on both sides at a price out of
\* bounds is refused for the mint order
C25_EqualMintsRefusedFirst ==
    /\ last.op = "initialize_pool"
    /\ last.err = "InvalidTokenMintOrderError"
    /\ last.token_mint_a = last.token_mint_b
    /\ ~PriceInBounds(last.sqrt_price)
    /\ pools[last.pool] = DefaultPool
    /\ \E p \in PoolIds : pools[p] # DefaultPool /\ pools[p].sqrt_price = MAX_SQRT_PRICE_X64

\* ------------------------------------------------------------------------
\* Properties of AiDexPool::initialize_reward
\* ------------------------------------------------------------------------
\* index is the lowest uninitialized slot of the reward infos
LowestUninitialized(reward_infos, index) ==
    /\ index \in RewardIdx
    /\ ~initialized(reward_infos[index])
    /\ \A j \in RewardIdx : j < index => initialized(reward_infos[j])

\* the method reached by an initialize_reward instruction refuses every index
\* but the lowest uninitialized one and changes nothing then; otherwise it
\* sets the mint and the vault of that slot and nothing else
InitializeRewardByIndex ==
    (/\ ops' = ops + 1
     /\ last'.op = "initialize_reward"
     /\ last'.err \in {"Ok", "InvalidRewardIndexError"}) =>
        IF LowestUninitialized(pools[last'.pool].reward_infos, last'.reward_index)
        THEN /\ last'.err = "Ok"
             /\ pools'[last'.pool].reward_infos[last'.reward_index].mint = last'.reward_mint
             /\ initialized(pools'[last'.pool].reward_infos[last'.reward_index])
             /\ pools'[last'.pool].reward_infos[last'.reward_index].vault # DefaultPubkey
             /\ pools' = [pools EXCEPT
                    ![last'.pool].reward_infos[last'.reward_index].mint =
                        pools'[last'.pool].reward_infos[last'.reward_index].mint,
                    ![last'.pool].reward_infos[last'.reward_index].vault =
                        pools'[last'.pool].reward_infos[last'.reward_index].vault]
        ELSE /\ last'.err = "InvalidRewardIndexError"
             /\ pools' = pools

\* the method applied to an index past the last slot
OutOfRangeIndexRefused ==
    \A p \in PoolIds : \A index \in {NUM_REWARDS, NUM_REWARDS + 1} :
        initialize_reward(pools[p], index, 2, 40) =
            [err |-> "InvalidRewardIndexError", pool |-> pools[p]]

RefusedBeforeSwaps(e) ==
    /\ last.err = e
    /\ last.stage = "accounts"
    /\ ~LastHopComputed

\* a two_hop_swap refused for its route updates neither pool, touches no
\* tick array and moves no token
RouteFailureChangesNothing ==
    (/\ last'.op = "two_hop_swap"
     /\ last'.err \in {"DuplicateTwoHopPoolError", "InvalidIntermediaryMintError"}) =>
        HopFailureChangesNothing

SamePoolRefused ==
    (last.op = "two_hop_swap" /\ last.one = last.two) =>
        RefusedBeforeSwaps("DuplicateTwoHopPoolError")

\* C27: two_hop_swap fails with DuplicateTwoHopPoolError whenever ai_dex_one
\* and ai_dex_two are the same pool account, before any swap computation,
\* tick-array access or state change
C27_SamePoolRefused == []SamePoolRefused /\ [][RouteFailureChangesNothing]_vars

\* the same pool given twice with directions that would chain (out of the
\* pool in mint B, back into it in mint B) was refused
C27_SamePoolBothWays ==
    /\ last.op = "two_hop_swap"
    /\ last.err = "DuplicateTwoHopPoolError"
    /\ last.one = last.two
    /\ last.a_to_b_one /\ ~last.a_to_b_two
    /\ last.amount > 0
    /\ pools[last.one].liquidity > 0

\* pool one's output mint and pool two's input mint of the last two_hop_swap
LastOutputMintOfOne ==
    IF last.a_to_b_one THEN pools[last.one].token_mint_b ELSE pools[last.one].token_mint_a

LastInputMintOfTwo ==
    IF last.a_to_b_two THEN pools[last.two].token_mint_a ELSE pools[last.two].token_mint_b

BrokenRouteRefused ==
    (/\ last.op = "two_hop_swap"
     /\ last.one # last.two
     /\ LastOutputMintOfOne # LastInputMintOfTwo) =>
        RefusedBeforeSwaps("InvalidIntermediaryMintError")

\* C28: two_hop_swap on two distinct pools fails with
\* InvalidIntermediaryMintError whenever pool one's output mint (mint B if
\* a_to_b_one, else mint A) differs from pool two's input mint (mint A if
\* a_to_b_two, else mint B), before any swap computation or state change
C28_IntermediaryMintMustAgree ==
    []BrokenRouteRefused /\ [][RouteFailureChangesNothing]_vars

\* pool 1 paying out mint 2 and pool 2 taking mint 3 was refused
C28_SecondHopTakesAnotherMint ==
    /\ last.op = "two_hop_swap"
    /\ last.err = "InvalidIntermediaryMintError"
    /\ last.one = 1 /\ last.two = 2
    /\ LastOutputMintOfOne = 2
    /\ LastInputMintOfTwo = 3
    /\ pools[1].liquidity > 0 /\ pools[2].liquidity > 0

\* ------------------------------------------------------------------------
\* Properties of liquidity changes of zero
\* ------------------------------------------------------------------------
LastLiquidityChange == last.op \in {"increase_liquidity", "decrease_liquidity"}

\* a liquidity change of zero by the position's authority fails with
\* ZeroLiquidityError; without the authority it fails the authority check
ZeroLiquidityRefused ==
    (LastLiquidityChange /\ last.liquidity_amount = 0) =>
        /\ last.authorized => last.err = "ZeroLiquidityError"
        /\ ~last.authorized => last.err = "InvalidPositionTokenAmountError"

\* a liquidity change refused with ZeroLiquidityError rolls no reward forward,
\* updates no tick, position or pool and moves no token
ZeroLiquidityChangesNothing ==
    (/\ ops' = ops + 1
     /\ last'.op \in {"increase_liquidity", "decrease_liquidity"}
     /\ last'.err = "ZeroLiquidityError") =>
        /\ pools' = pools
        /\ ticks' = ticks
        /\ positions' = positions
        /\ last'.from_owner_a = 0 /\ last'.from_owner_b = 0
        /\ last'.from_vault_a = 0 /\ last'.from_vault_b = 0

\* C29: increase_liquidity and decrease_liquidity with liquidity_amount = 0
\* fail with ZeroLiquidityError after the position-authority check and
\* before any reward roll-forward, tick/position/pool update or token
\* transfer
C29_ZeroLiquidityRefused == []ZeroLiquidityRefused /\ [][ZeroLiquidityChangesNothing]_vars

\* a deposit of zero refused after time passed on a pool whose reward emits:
\* the rewards stay at their earlier timestamp
C29_RefusedWithoutRollForward ==
    /\ last.op = "increase_liquidity"
    /\ last.err = "ZeroLiquidityError"
    /\ last.authorized
    /\ now > pools[last.pool].reward_last_updated_timestamp
    /\ pools[last.pool].reward_infos[0].emissions_per_second_x64 > 0
    /\ pools[last.pool].liquidity > 0

\* ------------------------------------------------------------------------
\* Properties of swaps of nothing
\* ------------------------------------------------------------------------
\* the swap l on the pool hands the kernel a tradable amount of zero: the
\* amount is zero, or it is an exact-in amount its input mint's transfer fee
\* takes whole
ZeroTradable(l, pool) ==
    /\ l.op = "swap"
    /\ \/ l.amount = 0
       \/ /\ l.amount_specified_is_input
          /\ l.amount = ForwardFee(mints[IF l.a_to_b THEN pool.token_mint_a
                                                     ELSE pool.token_mint_b], l.amount)

\* the price limit of the swap l is within the price bounds and on the side
\* of the pool's price the swap moves to
AcceptableLimit(l, pool) ==
    /\ PriceInBounds(l.sqrt_price_limit)
    /\ l.a_to_b => l.sqrt_price_limit <= pool.sqrt_price
    /\ ~l.a_to_b => l.sqrt_price_limit >= pool.sqrt_price

SwapChangesNothing ==
    /\ pools' = pools
    /\ ticks' = ticks
    /\ positions' = positions
    /\ last'.from_owner = 0
    /\ last'.from_vault = 0

\* C30 as stated: a swap whose tradable amount is zero is rejected with
\* ZeroTradableAmountError and changes no state
C30_ZeroTradableAmountError ==
    [][(ops' = ops + 1 /\ ZeroTradable(last', pools[last'.pool])) =>
          (last'.err = "ZeroTradableAmountError" /\ SwapChangesNothing)]_vars

ZeroTradableRefused ==
    (ops' = ops + 1 /\ ZeroTradable(last', pools[last'.pool])) =>
        /\ last'.err \in {"NoTradableAmountError", "SqrtPriceOutOfBoundsError",
                          "InvalidSqrtPriceLimitDirectionError"}
        /\ AcceptableLimit(last', pools[last'.pool]) => last'.err = "NoTradableAmountError"
        /\ SwapChangesNothing

\* C30 (amended): a swap whose tradable amount is zero is rejected and
\* changes no state, with NoTradableAmountError when its price limit is
\* acceptable; this covers amount = 0 and an exact-in amount > 0 whose
\* transfer-fee-excluded value handed to the swap kernel is 0
C30_NoTradableAmountError == [][ZeroTradableRefused]_vars

\* one token of a mint charging a transfer fee swapped in: the fee takes it
\* whole and the swap was refused
C30_FeeTakesTheWholeInput ==
    /\ last.op = "swap"
    /\ last.err = "NoTradableAmountError"
    /\ last.amount = 1
    /\ last.amount_specified_is_input
    /\ LastSwapInputMint.ext
    /\ AcceptableLimit(last, pools[last.pool])
    /\ pools[last.pool].liquidity > 0

\* ------------------------------------------------------------------------
\* Properties of exact-out swaps on an output mint with a transfer fee
\* ------------------------------------------------------------------------
LastExactOutWithOutputFee ==
    /\ LastSwapComputed
    /\ ~last.amount_specified_is_input
    /\ LastSwapOutputMint.ext
    /\ LastSwapOutputMint.transfer_fee_basis_points > 0

\* C31: in an exact-out swap on an output mint with a transfer fee the
\* output amount requested from the swap kernel is the transfer-fee-included
\* amount of `amount` for the output mint, and when the kernel gives all it
\* was asked for the user receives at least `amount` after the transfer fee
C31_KernelAskedForFeeIncludedOutput ==
    LastExactOutWithOutputFee =>
        /\ last.kernel_amount =
               calculate_transfer_fee_included_amount(LastSwapOutputMint, last.amount).amount
        /\ LastSwapKernelOutput = last.kernel_amount =>
               Received(LastSwapOutputMint, LastSwapOutputSide) >= last.amount

\* an exact-out swap went through whose kernel was asked for `amount` itself
\* and whose user receives less than `amount` after the transfer fee
C31_UserReceivesLess ==
    /\ LastExactOutWithOutputFee
    /\ last.err = "Ok"
    /\ last.amount > 0
    /\ last.kernel_amount = last.amount
    /\ last.from_vault = last.amount
    /\ Received(LastSwapOutputMint, last.from_vault) < last.amount

\* ------------------------------------------------------------------------
\* Properties of the input side of exact-in swaps
\* ------------------------------------------------------------------------
LastExactInComputed == LastSwapComputed /\ last.amount_specified_is_input

\* C32: in an exact-in swap the input-side amount returned by
\* swap_with_transfer_fee_extension, which is what is transferred from the
\* user, never exceeds the user-specified amount: it is the amount when the
\* kernel consumes the whole fee-excluded input, and otherwise the
\* fee-included amount of the part actually consumed
C32_ExactInInputWithinAmount ==
    LastExactInComputed =>
        /\ LastSwapInputSide <= last.amount
        /\ last.err = "Ok" => last.from_owner = LastSwapInputSide
        /\ last.kernel_amount = Received(LastSwapInputMint, last.amount)
        /\ LastSwapKernelInput = last.kernel_amount => LastSwapInputSide = last.amount
        /\ LastSwapKernelInput # last.kernel_amount =>
               LastSwapInputSide = calculate_transfer_fee_included_amount(LastSwapInputMint,
                                       LastSwapKernelInput).amount

\* an exact-in swap on an input mint with a transfer fee went through whose
\* kernel stopped at the price limit: the user paid the consumed part and its
\* transfer fee, less than the amount
C32_PartlyConsumedWithFee ==
    /\ LastExactInComputed
    /\ last.err = "Ok"
    /\ LastSwapInputMint.ext
    /\ 0 < LastSwapKernelInput
    /\ LastSwapKernelInput < last.kernel_amount
    /\ LastSwapKernelInput < last.from_owner
    /\ last.from_owner < last.amount

\* ------------------------------------------------------------------------
\* Properties of the protocol fee accumulators
\* ------------------------------------------------------------------------
\* the protocol fee the swap l adds to the accumulator of token A, of token B
ProtocolFeeInA(l) == IF l.a_to_b THEN l.protocol_fee ELSE 0
ProtocolFeeInB(l) == IF l.a_to_b THEN 0 ELSE l.protocol_fee

ProtocolFeesOwedOnlyGrow ==
    \A p \in PoolIds :
        IF ops' = ops + 1 /\ last'.op = "collect_protocol_fees" /\ last'.err = "Ok"
              /\ last'.pool = p
        THEN pools'[p].protocol_fee_owed_a = 0 /\ pools'[p].protocol_fee_owed_b = 0
        ELSE IF ops' = ops + 1 /\ last'.op = "swap" /\ last'.err = "Ok" /\ last'.pool = p
        THEN /\ pools'[p].protocol_fee_owed_a
                    = pools[p].protocol_fee_owed_a + ProtocolFeeInA(last')
             /\ pools'[p].protocol_fee_owed_b
                    = pools[p].protocol_fee_owed_b + ProtocolFeeInB(last')
        ELSE /\ pools'[p].protocol_fee_owed_a >= pools[p].protocol_fee_owed_a
             /\ pools'[p].protocol_fee_owed_b >= pools[p].protocol_fee_owed_b

SwapFrame(pool) ==
    <<pool.token_mint_a, pool.token_mint_b, pool.token_vault_a, pool.token_vault_b,
      pool.ai_dex_config, pool.tick_spacing, pool.fee_rate, pool.protocol_fee_rate>>

\* the fee side of the token the swap does not take in
OtherFeeSide(pool, a_to_b) ==
    IF a_to_b THEN <<pool.fee_growth_global_b, pool.protocol_fee_owed_b>>
    ELSE <<pool.fee_growth_global_a, pool.protocol_fee_owed_a>>

SwapTouchesInputFeeSideOnly ==
    (ops' = ops + 1 /\ last'.op = "swap" /\ last'.err = "Ok") =>
        /\ OtherFeeSide(pools'[last'.pool], last'.a_to_b)
              = OtherFeeSide(pools[last'.pool], last'.a_to_b)
        /\ SwapFrame(pools'[last'.pool]) = SwapFrame(pools[last'.pool])
        /\ \A q \in PoolIds \ {last'.pool} : pools'[q] = pools[q]

\* C34: update_after_swap touches only the fee side of the input token: an
\* a_to_b swap leaves fee_growth_global_b and protocol_fee_owed_b unchanged,
\* a b_to_a swap fee_growth_global_a and protocol_fee_owed_a; in both
\* directions the pool's mints, vaults, config, tick_spacing, fee_rate and
\* protocol_fee_rate are unchanged
C34_SwapTouchesInputFeeSideOnly == [][SwapTouchesInputFeeSideOnly]_vars

\* a swap of token B for token A went through with a protocol fee: the fee
\* side of token B moved, the fee side of token A is where it started
C34_FeeSideOfTokenBMoved ==
    /\ last.op = "swap"
    /\ last.err = "Ok"
    /\ ~last.a_to_b
    /\ last.protocol_fee > 0
    /\ pools[last.pool].protocol_fee_owed_b = last.protocol_fee
    /\ pools[last.pool].fee_growth_global_b > 0
    /\ pools[last.pool].protocol_fee_owed_a = 0
    /\ pools[last.pool].fee_growth_global_a = 0

\* ------------------------------------------------------------------------
\* Properties of the order of set_reward_emissions
\* ------------------------------------------------------------------------
SetRewardEmissionsRollsThenStores ==
    \A p \in PoolIds :
        (ops' = ops + 1 /\ last'.op = "set_reward_emissions" /\ last'.err = "Ok"
            /\ last'.pool = p)
        => /\ pools'[p].reward_last_updated_timestamp = now
           /\ \A i \in RewardIdx :
                LET before == pools[p].reward_infos[i]
                    after == pools'[p].reward_infos[i]
                IN /\ after.growth_global_x64 =
                          before.growth_global_x64
                              + (IF initialized(before)
                                 THEN RewardGrowthDelta(pools[p], i, now) ELSE 0)
                   /\ after.emissions_per_second_x64 =
                          IF i = last'.reward_index
                          THEN last'.emissions_per_second_x64
                          ELSE before.emissions_per_second_x64
                   /\ after.mint = before.mint
                   /\ after.vault = before.vault
                   /\ after.authority = before.authority

\* C35: set_reward_emissions first rolls every reward slot's growth forward
\* to the current timestamp with the emission rates in force before the call
\* and only then stores the new rate: the time before the call accrues at the
\* old rate, the time after it at the rate stored, and only slot
\* reward_index's emissions_per_second_x64 changes (the mint, vault and
\* authority of every slot and the rates of the other slots are unchanged)
C35_RollsForwardThenStoresRate ==
    [][SetRewardEmissionsRollsThenStores /\ RewardsRolledForwardToNow]_vars

\* slot 1 of a pool with liquidity, silent until now, was set to emit one
\* second after the last update: that second earned it nothing, while slot 0
\* accrued at its rate
C35_ElapsedSecondAtOldRate ==
    /\ last.op = "set_reward_emissions" /\ last.err = "Ok"
    /\ last.reward_index = 1
    /\ ops = 1
    /\ now > 0
    /\ pools[1].reward_last_updated_timestamp = now
    /\ pools[1].liquidity > 0
    /\ pools[1].reward_infos[1].emissions_per_second_x64 > 0
    /\ pools[1].reward_infos[1].growth_global_x64 = 0
    /\ pools[1].reward_infos[0].growth_global_x64 > 0

\* ------------------------------------------------------------------------
\* Properties of the uninitialized reward slots
\* ------------------------------------------------------------------------
\* C36: in every reachable pool state a reward slot that is not initialized
\* (mint equal to the default key) has emissions_per_second_x64 = 0 and
\* growth_global_x64 = 0, whatever set_reward_emissions, set_reward_authority,
\* swaps and liquidity changes came before
C36_UninitializedSlotsSilent ==
    \A p \in PoolIds : \A i \in RewardIdx :
        ~initialized(pools[p].reward_infos[i])
            => /\ pools[p].reward_infos[i].emissions_per_second_x64 = 0
               /\ pools[p].reward_infos[i].growth_global_x64 = 0

\* the authority of a slot that is not initialized asked for emissions the
\* vault balance covers and was refused for the vault, on a pool with
\* liquidity whose rewards were due for a second
C36_RefusedOnUninitializedSlot ==
    /\ last.op = "set_reward_emissions"
    /\ last.err = "AccountOwnedByWrongProgram"
    /\ last.signer = pools[last.pool].reward_infos[last.reward_index].authority
    /\ ~initialized(pools[last.pool].reward_infos[last.reward_index])
    /\ last.vault_amount >= EmissionsPerDay(last.emissions_per_second_x64)
    /\ last.emissions_per_second_x64 > 0
    /\ pools[last.pool].liquidity > 0
    /\ now > pools[last.pool].reward_last_updated_timestamp

\* ------------------------------------------------------------------------
\* Properties of a failed AiDexPool::initialize
\* ------------------------------------------------------------------------
\* the last instruction was an initialize_pool whose AiDexPool::initialize
\* returned one of its errors
InitializeFailed ==
    /\ last.op = "initialize_pool"
    /\ last.err \in {"InvalidTokenMintOrderError", "SqrtPriceOutOfBoundsError",
                      "FeeRateExceededError", "ProtocolFeeRateExceededError"}

C38_TransferFeeRoundTrip ==
    (last.op = "calculate_transfer_fee_included_amount" /\ last.err = "Ok") =>
        /\ calculate_transfer_fee_excluded_amount(mints[last.mint], last.amount)
              = [err |-> "Ok", amount |-> last.excluded, transfer_fee |-> last.transfer_fee]
        /\ last.excluded = 0 => (last.amount = 0 /\ last.transfer_fee = 0)
        /\ ~mints[last.mint].ext =>
              /\ last.amount = last.excluded
              /\ last.transfer_fee = 0
              /\ \A y \in 0..MaxExcluded :
                    calculate_transfer_fee_excluded_amount(mints[last.mint], y)
                        = [err |-> "Ok", amount |-> y, transfer_fee |-> 0]

\* nothing asked of a mint that takes every token up to its cap: nothing is
\* included and no fee is due
C38_NothingOfAFullFeeMint ==
    /\ last.op = "calculate_transfer_fee_included_amount"
    /\ last.err = "Ok"
    /\ mints[last.mint].ext
    /\ mints[last.mint].transfer_fee_basis_points = MAX_FEE_BASIS_POINTS
    /\ mints[last.mint].maximum_fee > 0
    /\ last.excluded = 0
    /\ last.amount = 0
    /\ last.transfer_fee = 0

====
